---- MODULE Spec2Model ----
(***************************************************************************)
(* A model of RilowFramework's runtime type contracts (src/src/typed.py):  *)
(* the matcher _typecheck over the typing expressions it dispatches on,    *)
(* and the contracted callable _TypedWrapper around a target function.     *)
(*                                                                         *)
(* Python values and typing expressions are records of one shape each, so  *)
(* that they can be compared and nested.  A matcher result is one of the   *)
(* strings "True", "False", or the name of the exception that escapes.     *)
(*                                                                         *)
(* The other libraries of the framework follow, each with a specification  *)
(* of its own: interface.py, rtest.py, framework.py, override.py,          *)
(* events.py and promise.py.                                               *)
(***************************************************************************)
EXTENDS Integers, Sequences, FiniteSets, TLC

VARIABLES mv, mt, mres,   \* a matcher run: value, declared type, result
          w,              \* the contracted callable
          call,           \* the last invocation
          received,       \* what the caller got from the last call of w
          nested,         \* the wrapper behind received, if it is one
          klass,          \* the object typed is applied to, as it is now
          deco,           \* the last application of typed to klass
          via,            \* the attribute access behind the last method call
          threads,        \* the invocations of w in flight, one per thread
          iface, impl,    \* an interface, and a class body declared under it
          assertion,      \* the last assertRaises of the testing library
          _registry, _eventCache,  \* framework.py: event code -> functions,
                                   \* event name -> code
          marked,         \* the functions that carry __FRAMEWORK_ON_ONCE__
          history,        \* the calls of on, onOnce, remove and do so far
          fwdo,           \* the last framework do()
          id,             \* override.py: the address of each type object
          _overrides,     \* hash -> function, for one function name
          declared,       \* the overrides of the name, as they were declared
          ovcall,         \* the last call of the name
          EventManager, evdo,      \* events.py: the manager, the last do()
          promises, resolution     \* promise.py: a chain, its last resolving

typedVars == <<mv, mt, mres, w, call, received, nested, klass, deco, via>>
ifaceVars == <<iface, impl>>
fwVars    == <<_registry, _eventCache, marked, history, fwdo>>
ovVars    == <<id, _overrides, declared, ovcall>>
evVars    == <<EventManager, evdo>>
prVars    == <<promises, resolution>>
libVars   == <<threads, ifaceVars, assertion, fwVars, ovVars, evVars, prVars>>

vars == <<typedVars, libVars>>

(***************************************************************************)
(* Runtime values.  kind is the name of the value's class.                 *)
(***************************************************************************)
Val(kind, nm, items) == [kind |-> kind, nm |-> nm, items |-> items]

IntV(s)      == Val("int", s, <<>>)
StrV(s)      == Val("str", s, <<>>)
BoolV(s)     == Val("bool", s, <<>>)
NoneV        == Val("NoneType", "None", <<>>)
NoValue      == Val("", "", <<>>)                    \* nothing there
ListV(xs)    == Val("list", "", xs)
TupleV(xs)   == Val("tuple", "", xs)
\* a dict's items are its keys and values in turn: <<k1, v1, k2, v2, ...>>
DictV(kvs)   == Val("dict", "", kvs)
FuncV(name)  == Val("function", name, <<>>)
ClassV(name) == Val("type", name, <<>>)
\* the typing object Callable[[int], int] itself, handed around as a value
CallableAliasV == Val("_CallableGenericAlias", "Callable", <<>>)
\* a _TypedWrapper object around the function of that name
WrapperV(name) == Val("_TypedWrapper", name, <<>>)

keys(v)   == [i \in 1..(Len(v.items) \div 2) |-> v.items[2 * i - 1]]
values(v) == [i \in 1..(Len(v.items) \div 2) |-> v.items[2 * i]]

\* builtins.callable
callable(v) ==
    v.kind \in {"function", "type", "_CallableGenericAlias", "_TypedWrapper"}

(***************************************************************************)
(* Declared type expressions, as the typing module represents them.        *)
(***************************************************************************)
Ty(tag, nm, args) == [tag |-> tag, nm |-> nm, args |-> args]

AnyT          == Ty("Any", "Any", <<>>)
NoReturnT     == Ty("NoReturn", "NoReturn", <<>>)
NoneT         == Ty("None", "None", <<>>)            \* the annotation None
ClassT(name)  == Ty("Class", name, <<>>)             \* a plain class
StrT(name)    == Ty("str", name, <<>>)               \* an annotation "Name"
ForwardRefT(name) == Ty("ForwardRef", name, <<>>)    \* typing.ForwardRef
TypeT         == Ty("Type", "Type", <<>>)            \* bare typing.Type
TypeVarT(name, bound) == Ty("TypeVar", name, bound)  \* bound: <<>> or <<b>>
ListT         == Ty("List", "List", <<>>)            \* bare typing.List
TupleT        == Ty("Tuple", "Tuple", <<>>)
DictT         == Ty("Dict", "Dict", <<>>)
CallableBareT == Ty("CallableBare", "Callable", <<>>) \* bare typing.Callable

IntC  == ClassT("int")
StrC  == ClassT("str")
NoneTypeC == ClassT("NoneType")
TypeC == ClassT("type")

\* typing._type_convert: what subscription does to each parameter
_type_convert(t) ==
    IF t.tag = "None" THEN NoneTypeC
    ELSE IF t.tag = "str" THEN ForwardRefT(t.nm)
    ELSE t

ConvAll(ts) == [i \in 1..Len(ts) |-> _type_convert(ts[i])]

RECURSIVE Flatten(_)
Flatten(ts) ==
    IF ts = <<>> THEN <<>>
    ELSE (IF Head(ts).tag = "Union" THEN Head(ts).args ELSE <<Head(ts)>>)
         \o Flatten(Tail(ts))

RECURSIVE Dedup(_)
Dedup(ts) ==
    IF ts = <<>> THEN <<>>
    ELSE LET rest == Dedup(SubSeq(ts, 1, Len(ts) - 1))
             last == ts[Len(ts)]
         IN  IF \E i \in 1..Len(rest) : rest[i] = last THEN rest
             ELSE Append(rest, last)

\* Union[...]: parameters converted, nested unions flattened, duplicates
\* dropped, a single member standing for itself
UnionOf(ts) ==
    LET ms == Dedup(Flatten(ConvAll(ts)))
    IN  IF Len(ms) = 1 THEN ms[1] ELSE Ty("Union", "Union", ms)

ListOf(t)      == Ty("List", "List", <<_type_convert(t)>>)
TupleOf(ts)    == Ty("Tuple", "Tuple", ConvAll(ts))
DictOf(k, v)   == Ty("Dict", "Dict", <<_type_convert(k), _type_convert(v)>>)
TypeOf(t)      == Ty("TypeSub", "Type", <<_type_convert(t)>>)
\* Callable[[P1..Pn], R]: __args__ is (P1, .., Pn, R)
CallableOf(ps, r) == Ty("Callable", "Callable", ConvAll(Append(ps, r)))

_getArgs(t) == t.args

_getBound(t) == t.args

get_origin(t) ==
    CASE t.tag = "Union"    -> "Union"
      [] t.tag = "List"     -> "list"
      [] t.tag = "Tuple"    -> "tuple"
      [] t.tag = "Dict"     -> "dict"
      [] t.tag = "TypeSub"  -> "type"
      [] t.tag \in {"Callable", "CallableBare"} -> "Callable"
      [] OTHER              -> "None"

_isUnion(t)   == get_origin(t) = "Union"
_isList(t)    == get_origin(t) = "list"
_isTuple(t)   == get_origin(t) = "tuple"
_isDict(t)    == get_origin(t) = "dict"
_isTypeVar(t) == t.tag = "TypeVar"
\* x == Type and x.__class__ == _SpecialGenericAlias: Type[X] is not equal
\* to Type, so only the bare alias passes
_isType(t)    == t.tag = "Type"
_isBuiltinType(t) == t = TypeC
\* a test that takes no annotation for a textual name
NeverString(t) == FALSE

\* x.__class__ == _CallableGenericAlias, asked of a declared type
_isCallable(t) == t.tag = "Callable"
\* the same test asked of a runtime value (a returned result)
_isCallableValue(v) == v.kind = "_CallableGenericAlias"
_isString(t)  == t.tag = "str" \/ t = StrC

True  == "True"
False == "False"
Bool(b) == IF b THEN True ELSE False
IsExc(r) == r \notin {True, False}

\* builtins.isinstance(v, t) with t a plain class
InstanceOf(v, name) ==
    \/ name = "object"
    \/ v.kind = name
    \/ v.kind = "bool" /\ name = "int"

\* builtins.isinstance as _typecheck's fallback uses it: a class is tested,
\* bare Callable tests invokability, any other typing object is refused
isinstance(v, t) ==
    CASE t.tag = "Class"        -> Bool(InstanceOf(v, t.nm))
      [] t.tag = "CallableBare" -> Bool(callable(v))
      [] OTHER                  -> "TypeError"

\* all([f(x) for x in xs]): every item is evaluated in order before all()
\* looks at any; the first exception escapes
AllOf(rs) ==
    IF \E i \in 1..Len(rs) : IsExc(rs[i])
    THEN rs[CHOOSE i \in 1..Len(rs) :
                IsExc(rs[i]) /\ \A j \in 1..(i - 1) : ~IsExc(rs[j])]
    ELSE Bool(\A i \in 1..Len(rs) : rs[i] = True)

\* for type_ in t.__args__: x = _typecheck(v, type_); if x: check = True; break
AnyOf(rs) ==
    IF \E i \in 1..Len(rs) : rs[i] # False
    THEN rs[CHOOSE i \in 1..Len(rs) :
                rs[i] # False /\ \A j \in 1..(i - 1) : rs[j] = False]
    ELSE False

\* a matcher whose Any lets only an int through
AnyAsInt(v, t) == IF t = AnyT THEN Bool(v.kind = "int") ELSE True

RECURSIVE _typecheck(_, _)
_typecheck(v, t) ==
    IF t = AnyT THEN True
    ELSE IF t = NoReturnT THEN "RuntimeError"
    ELSE IF t = NoneT \/ t = NoneTypeC THEN Bool(v = NoneV)
    ELSE IF _isType(t) THEN
        (IF Len(_getArgs(t)) = 0 THEN True
         ELSE _typecheck(v, _getArgs(t)[1]))
    ELSE IF _isTypeVar(t) THEN
        (IF _getBound(t) # <<>> THEN _typecheck(v, _getBound(t)[1])
         ELSE True)
    ELSE IF _isBuiltinType(t) THEN True
    ELSE IF _isUnion(t) THEN
        AnyOf([i \in 1..Len(t.args) |-> _typecheck(v, t.args[i])])
    ELSE IF _isList(t) THEN
        (IF v.kind # "list" THEN False
         ELSE IF _getArgs(t) = <<>> THEN True
         ELSE AllOf([i \in 1..Len(v.items) |->
                        _typecheck(v.items[i], _getArgs(t)[1])]))
    ELSE IF _isTuple(t) THEN
        (IF v.kind # "tuple" THEN False
         ELSE IF _getArgs(t) = <<>> THEN True
         ELSE IF Len(_getArgs(t)) # Len(v.items) THEN False
         ELSE AllOf([i \in 1..Len(_getArgs(t)) |->
                        _typecheck(v.items[i], _getArgs(t)[i])]))
    ELSE IF _isDict(t) THEN
        (IF v.kind # "dict" THEN False
         \* keyType = args[0] on the empty tuple of a bare Dict
         ELSE IF Len(_getArgs(t)) < 2 THEN "IndexError"
         ELSE LET keysCheck == AllOf([i \in 1..Len(keys(v)) |->
                                  _typecheck(keys(v)[i], _getArgs(t)[1])])
                  valsCheck == AllOf([i \in 1..Len(values(v)) |->
                                  _typecheck(values(v)[i], _getArgs(t)[2])])
              IN  IF IsExc(keysCheck) THEN keysCheck
                  ELSE IF IsExc(valsCheck) THEN valsCheck
                  ELSE Bool(keysCheck = True /\ valsCheck = True))
    ELSE IF _isCallable(t) THEN True
    ELSE IF _isString(t) THEN True
    ELSE isinstance(v, t)

(***************************************************************************)
(* _getTypeName: the text an error message shows for a declared type.      *)
(***************************************************************************)
\* str(x) of a typing expression, as the List branch formats its parameter
PyStr(t) ==
    CASE t.tag = "Class"      -> "<class '" \o t.nm \o "'>"
      [] t.tag = "ForwardRef" -> "ForwardRef('" \o t.nm \o "')"
      [] t.tag = "TypeVar"    -> "~" \o t.nm
      [] t.tag \in {"str", "None"} -> t.nm
      [] OTHER                -> "typing." \o t.nm

RECURSIVE Join(_, _)
Join(ss, sep) ==
    IF ss = <<>> THEN ""
    ELSE IF Len(ss) = 1 THEN ss[1]
    ELSE ss[1] \o sep \o Join(Tail(ss), sep)

\* repr(name) inside str(tuple(...)): a text holding a single quote is
\* shown between double quotes
Repr(x, name) ==
    IF x.tag = "ForwardRef" \/ (x.tag = "List" /\ x.args # <<>>)
    THEN "\"" \o name \o "\""
    ELSE "'" \o name \o "'"

RECURSIVE _getTypeName(_)
_getTypeName(x) ==
    IF x = AnyT THEN "Any"
    ELSE IF x = NoReturnT THEN "NoReturn"
    ELSE IF _isUnion(x) THEN
        "(" \o Join([i \in 1..Len(x.args) |->
                        Repr(x.args[i], _getTypeName(x.args[i]))], ", ") \o ")"
    ELSE IF _isList(x) THEN
        (IF _getArgs(x) # <<>> THEN "List[" \o PyStr(_getArgs(x)[1]) \o "]"
         ELSE "List[]")
    ELSE IF _isTuple(x) THEN
        \* with no parameters the two characters cut are "e["
        (IF _getArgs(x) = <<>> THEN "Tupl]"
         ELSE "Tuple[" \o Join([i \in 1..Len(x.args) |->
                                   _getTypeName(x.args[i])], ", ") \o "]")
    ELSE IF _isDict(x) THEN
        (IF _getArgs(x) # <<>>
         THEN "Dict[" \o _getTypeName(_getArgs(x)[1]) \o ": "
                      \o _getTypeName(_getArgs(x)[2]) \o "]"
         ELSE "Dict[]")
    ELSE IF _isTypeVar(x) THEN
        (IF _getBound(x) # <<>>
         THEN _getTypeName(_getBound(x)[1]) \o " (TypeVar(\"" \o x.nm \o "\"))"
         ELSE PyStr(x))
    ELSE IF _isType(x) THEN "type"
    ELSE IF x.tag = "ForwardRef" THEN PyStr(x)
    ELSE x.nm

(***************************************************************************)
(* Python dicts, kept in insertion order as sequences of (k, v) entries.   *)
(***************************************************************************)
KV(k, v)  == [k |-> k, v |-> v]
Has(d, k) == \E i \in 1..Len(d) : d[i].k = k
Get(d, k) == d[CHOOSE i \in 1..Len(d) : d[i].k = k].v
\* d[k] = v
Put(d, k, v) ==
    IF Has(d, k) THEN [i \in 1..Len(d) |-> IF d[i].k = k THEN KV(k, v) ELSE d[i]]
    ELSE Append(d, KV(k, v))
Min(a, b) == IF a < b THEN a ELSE b
\* dict(zip(names, args))
ZipDict(names, args) ==
    [i \in 1..Min(Len(names), Len(args)) |-> KV(names[i], args[i])]

(***************************************************************************)
(* Target functions: what the wrapper reads of a function object.          *)
(*   pos, kwonly  co_varnames[:co_argcount] and the keyword-only names     *)
(*   required     the parameters without a default                         *)
(*   varargs      whether the function has a *args collector               *)
(*   ann          __annotations__                                          *)
(***************************************************************************)
Fn(name, pos, kwonly, required, varargs, ann) ==
    [name |-> name, pos |-> pos, kwonly |-> kwonly, required |-> required,
     varargs |-> varargs, ann |-> ann]

OptionalOf(t) == UnionOf(<<t, NoneT>>)

\* the declared return type of myFunc in _main
MyFuncReturn == CallableOf(<<IntC, IntC, OptionalOf(ClassT("bool"))>>, IntC)

Targets ==
    { \* def add(x: int, y: int) -> int
      Fn("add", <<"x", "y">>, <<>>, {"x", "y"}, FALSE,
         <<KV("x", IntC), KV("y", IntC), KV("return", IntC)>>),
      \* def myFunc(x: int, y=None) -> Callable[[int, int, Optional[bool]], int]
      Fn("myFunc", <<"x", "y">>, <<>>, {"x"}, FALSE,
         <<KV("x", IntC), KV("return", MyFuncReturn)>>),
      \* def test(x, y, test=None) -> int, the function myFunc returns
      Fn("test", <<"x", "y", "test">>, <<>>, {"x", "y"}, FALSE,
         <<KV("return", IntC)>>),
      \* def passInADict(data: Dict) -> None
      Fn("passInADict", <<"data">>, <<>>, {"data"}, FALSE,
         <<KV("data", DictT), KV("return", NoneT)>>),
      \* def update(data: Dict, y: int) -> Dict
      Fn("update", <<"data", "y">>, <<>>, {"data", "y"}, FALSE,
         <<KV("data", DictT), KV("y", IntC), KV("return", DictT)>>),
      \* def getData(x: int) -> Dict
      Fn("getData", <<"x">>, <<>>, {"x"}, FALSE,
         <<KV("x", IntC), KV("return", DictT)>>),
      \* def identity(x): nothing declared
      Fn("identity", <<"x">>, <<>>, {"x"}, FALSE, <<>>),
      \* def getUser(id: int) -> "User"
      Fn("getUser", <<"id">>, <<>>, {"id"}, FALSE,
         <<KV("id", IntC), KV("return", StrT("User"))>>),
      \* def collect(x: int, *rest)
      Fn("collect", <<"x">>, <<>>, {"x"}, TRUE, <<KV("x", IntC)>>),
      \* def collectFlag(x: int, *rest, flag: bool = False)
      Fn("collectFlag", <<"x">>, <<"flag">>, {"x"}, TRUE,
         <<KV("x", IntC), KV("flag", ClassT("bool"))>>) }

\* the functions found in the classes typed is applied to
MethodFunctions ==
    { \* def __init__(self, x: int)
      Fn("__init__", <<"self", "x">>, <<>>, {"self", "x"}, FALSE,
         <<KV("x", IntC)>>),
      \* def __repr__(self)
      Fn("__repr__", <<"self">>, <<>>, {"self"}, FALSE, <<>>),
      \* def move(self, dx: int) -> int
      Fn("move", <<"self", "dx">>, <<>>, {"self", "dx"}, FALSE,
         <<KV("dx", IntC), KV("return", IntC)>>),
      \* def get(self, k: int) -> int
      Fn("get", <<"self", "k">>, <<>>, {"self", "k"}, FALSE,
         <<KV("k", IntC), KV("return", IntC)>>),
      \* def run(self, x: int) -> int
      Fn("run", <<"self", "x">>, <<>>, {"self", "x"}, FALSE,
         <<KV("x", IntC), KV("return", IntC)>>),
      \* _TypedWrapper.__call__(self, *args, **kwargs)
      Fn("__call__", <<"self">>, <<>>, {"self"}, TRUE, <<>>) }

Target(name) == CHOOSE f \in Targets \cup MethodFunctions : f.name = name

\* _getArgNames(func.__code__)
_getArgNames(f) == f.pos \o f.kwonly

(***************************************************************************)
(* Outcomes of a call: a returned value or an escaping exception.          *)
(*   by     "arg"/"return": the contract's own TypeError; "matcher": an    *)
(*          exception out of _typecheck; "wrap": out of from_callable;     *)
(*          "target": out of the call of the wrapped function              *)
(*   fn, param, expected: the texts the contract's message is built from   *)
(***************************************************************************)
Outcome(kind, val, exc, by, fn, param, expected) ==
    [kind |-> kind, val |-> val, exc |-> exc, by |-> by,
     fn |-> fn, param |-> param, expected |-> expected]

Returned(v)      == Outcome("return", v, "", "", "", "", "")
Raised(exc, by)  == Outcome("raise", NoneV, exc, by, "", "", "")
\* TypeError("Function '%s' argument '%s' must be type '%s'")
ArgumentTypeError(fn, param, expected) ==
    Outcome("raise", NoneV, "TypeError", "arg", fn, param, expected)
\* TypeError("Function '%s' must return type '%s'")
ReturnTypeError(fn, expected) ==
    Outcome("raise", NoneV, "TypeError", "return", fn, "", expected)
NoOutcome        == Outcome("none", NoneV, "", "", "", "", "")

(***************************************************************************)
(* _TypedWrapper objects.  wrap_callables is "unset" on a wrapper built by *)
(* from_callable, whose __init__ returns before assigning it.              *)
(***************************************************************************)
Wrapper(func, args, annotations, return_type, wrap_callables) ==
    [func |-> func, name |-> func, args |-> args,
     annotations |-> annotations, return_type |-> return_type,
     return_type_name |-> _getTypeName(return_type),
     wrap_callables |-> wrap_callables]

NoWrapper == [func |-> "", name |-> "", args |-> <<>>, annotations |-> <<>>,
              return_type |-> AnyT, return_type_name |-> "",
              wrap_callables |-> "unset"]

\* annotations[name] = rawAnnotations[name] if present else Any, per name
RECURSIVE InitAnnotations(_, _)
InitAnnotations(names, raw) ==
    IF names = <<>> THEN <<>>
    ELSE Put(InitAnnotations(SubSeq(names, 1, Len(names) - 1), raw),
             names[Len(names)],
             IF Has(raw, names[Len(names)]) THEN Get(raw, names[Len(names)])
             ELSE AnyT)

\* _TypedWrapper.__init__(func, wrap_callables=...)
TypedWrapperInit(f, wrap_callables) ==
    LET names == _getArgNames(f)
        rt    == IF Has(f.ann, "return") THEN Get(f.ann, "return") ELSE AnyT
        annotations == Put(InitAnnotations(names, f.ann), "return", rt)
    IN  Wrapper(f.name, names, annotations, rt, wrap_callables)

(***************************************************************************)
(* The call func(args, kwargs) of a plain function: Python binds the    *)
(* arguments to the parameters before the body runs and raises TypeError   *)
(* when they do not fit.                                                   *)
(***************************************************************************)
BindOk(f, args, kwargs) ==
    LET npos == Min(Len(args), Len(f.pos))
        byPosition == {f.pos[i] : i \in 1..npos}
        byKeyword  == {kwargs[i].k : i \in 1..Len(kwargs)}
        names == {_getArgNames(f)[i] : i \in 1..Len(_getArgNames(f))}
    IN  /\ f.varargs \/ Len(args) <= Len(f.pos)
        /\ byKeyword \subseteq names
        /\ byKeyword \cap byPosition = {}
        /\ f.required \subseteq (byPosition \cup byKeyword)

\* One invocation, as far as it got:
\*   checked   the parameters _typecheck was asked about, in order
\*   called    whether self.func(args, kwargs) was evaluated
\*   passed    the positional and keyword arguments handed to the target
\*   ran       whether the target's body ran (the arguments bound)
\*   tout      how the call of the target ended (NoOutcome: not called)
\*   ret       what the target returned (NoValue: it did not return)
\*   retcheck  whether _typecheck was asked about the result
\*   out       how the invocation ended for the caller
Invocation(on, args, kwargs, checked, called, passed, ran, tout, out) ==
    [on |-> on, args |-> args, kwargs |-> kwargs, checked |-> checked,
     called |-> called, passed |-> passed, ran |-> ran, tout |-> tout,
     ret |-> IF tout.kind = "return" THEN tout.val ELSE NoValue,
     retcheck |-> FALSE, out |-> out]

Args(args, kwargs) == [args |-> args, kwargs |-> kwargs]

NoCall == Invocation("", <<>>, <<>>, <<>>, FALSE, Args(<<>>, <<>>), FALSE,
                     NoOutcome, NoOutcome)

\* the check of the i-th entry of argzip: _typecheck(argzip[arg],
\* self.annotations[arg]); the subscript raises KeyError on a missing name
ArgCheck(wr, argzip, i) ==
    IF ~Has(wr.annotations, argzip[i].k) THEN "KeyError"
    ELSE _typecheck(argzip[i].v, Get(wr.annotations, argzip[i].k))

\* self.func(args, kwargs) with the target behaving as beh
CallTarget(f, args, kwargs, beh) ==
    IF BindOk(f, args, kwargs) THEN beh ELSE Raised("TypeError", "target")

\* a handler that drops the target's failure and goes on with None
SwallowFailure(tout) ==
    IF tout.kind = "raise" THEN Returned(NoneV) ELSE tout

\* try: return self.func(args, kwargs) / except Exception as exc: raise --
\* the handler re-raises what it caught
Reraise(tout) == tout

\* _TypedWrapper.typedfunc(args, kwargs)
typedfunc(wr, on, args, kwargs, beh) ==
    LET argzip == ZipDict(wr.args, args)
        r      == [i \in 1..Len(argzip) |-> ArgCheck(wr, argzip, i)]
        bad    == {i \in 1..Len(argzip) : r[i] # True}
        first  == CHOOSE i \in bad : \A j \in bad : i <= j
        names(n) == [i \in 1..n |-> argzip[i].k]
        f      == Target(wr.func)
    IN  IF bad # {}
        THEN Invocation(on, args, kwargs, names(first), FALSE,
                Args(<<>>, <<>>), FALSE, NoOutcome,
                IF r[first] = False
                THEN ArgumentTypeError(wr.name, argzip[first].k,
                        _getTypeName(Get(wr.annotations, argzip[first].k)))
                ELSE Raised(r[first], "matcher"))
        ELSE Invocation(on, args, kwargs, names(Len(argzip)), TRUE,
                Args(args, kwargs), BindOk(f, args, kwargs),
                CallTarget(f, args, kwargs, beh),
                Reraise(CallTarget(f, args, kwargs, beh)))

\* _TypedWrapper.from_callable(func, type_): [exc, wrapper]; exc = "" when
\* the wrapper was built
from_callable(func, type_) ==
    LET all == _getArgs(type_)
        return_type == IF all # <<>> THEN all[Len(all)] ELSE AnyT
        args  == IF all # <<>> THEN SubSeq(all, 1, Len(all) - 1) ELSE <<>>
        names == _getArgNames(Target(func.nm))
        annotations == [i \in 1..Len(args) |-> KV(names[i], args[i])]
    IN  \* func.__code__ of a value that is no function
        IF func.kind # "function" THEN [exc |-> "AttributeError",
                                        wrapper |-> NoWrapper]
        \* names[i] past the last formal parameter
        ELSE IF Len(args) > Len(names) THEN [exc |-> "IndexError",
                                             wrapper |-> NoWrapper]
        ELSE [exc |-> "",
              wrapper |-> Wrapper(func.nm, names,
                                  Put(annotations, "return", return_type),
                                  return_type, "unset")]

\* the tail of __call__ once typedfunc has returned ret: the returned
\* callable is wrapped, or the result is checked against the return type
AfterReturn(wr, ret) ==
    IF _isCallableValue(ret) /\ wr.wrap_callables # False
    THEN IF wr.wrap_callables = "unset" THEN Raised("AttributeError", "wrap")
         ELSE IF from_callable(ret, wr.return_type).exc # ""
              THEN Raised(from_callable(ret, wr.return_type).exc, "wrap")
              ELSE Returned(WrapperV(ret.nm))
    ELSE LET check == _typecheck(ret, wr.return_type)
         IN  IF check = True THEN Returned(ret)
             ELSE IF check = False
                  THEN ReturnTypeError(wr.name, wr.return_type_name)
                  ELSE Raised(check, "matcher")

\* whether __call__ reaches _typecheck(ret, self.return_type)
ChecksReturn(wr, ret) == ~(_isCallableValue(ret) /\ wr.wrap_callables # False)

\* the wrapper __call__ hands out, if it builds one
WrappedReturn(wr, ret) ==
    IF /\ _isCallableValue(ret) /\ wr.wrap_callables = True
       /\ from_callable(ret, wr.return_type).exc = ""
    THEN from_callable(ret, wr.return_type).wrapper
    ELSE NoWrapper

\* _TypedWrapper.__call__(args, kwargs)
TypedCall(wr, on, args, kwargs, beh) ==
    LET inv == typedfunc(wr, on, args, kwargs, beh)
    IN  IF inv.out.kind = "raise" THEN inv
        ELSE [inv EXCEPT !.retcheck = ChecksReturn(wr, inv.out.val),
                         !.out = AfterReturn(wr, inv.out.val)]

\* typed(func) on a function: _TypedWrapper(func)
typed(f) == TypedWrapperInit(f, True)

\* a plain function called without any wrapper around it
PlainCall(f, on, args, kwargs, beh) ==
    Invocation(on, args, kwargs, <<>>, TRUE, Args(args, kwargs),
               BindOk(f, args, kwargs), CallTarget(f, args, kwargs, beh),
               CallTarget(f, args, kwargs, beh))

(***************************************************************************)
(* typed applied to any object.  An object carries its attributes in the   *)
(* order dir() lists them, each with the value getattr finds.              *)
(***************************************************************************)
\* a bound method of the function of that name
MethodV(name)  == Val("method", name, <<>>)
\* object.__init__ as a class shows it, and as an instance shows it
SlotWrapperV   == Val("wrapper_descriptor", "__init__", <<>>)
MethodWrapperV == Val("method-wrapper", "__init__", <<>>)
ClassObj(name, attrs)  == Val("type", name, attrs)
InstanceV(cls, attrs)  == Val(cls, "", attrs)

UserClasses == {"Point", "Plain", "Aliased"}

\* functools.partial(wrapper.__call__, bound...) for the wrapper around the
\* function of that name; dir() of a partial shows args, func and keywords
\* past the dunder names
_partial(name, bound) ==
    Val("partial", name,
        <<KV("__init__", MethodWrapperV), KV("args", TupleV(bound)),
          KV("func", MethodV("__call__")), KV("keywords", DictV(<<>>))>>)

\* a descriptor that hands out the call without the receiver
UnboundGet(v, x, t) == _partial(v.nm, <<>>)

\* _TypedWrapper.__get__(self, x, t)
__get__(v, x, t) == _partial(v.nm, <<x>>)

\* calling the partial: wrapper.__call__(bound..., args, kwargs)
CallPartial(p, on, args, kwargs, beh) ==
    TypedCall(typed(Target(p.nm)), on, Get(p.items, "args").items \o args,
              kwargs, beh)

\* hasattr(x, "__code__"): a bound method forwards it to its function
HasCode(x) == x.kind \in {"function", "method"}
\* hasattr(x, "__dict__")
HasDict(x) ==
    x.kind \in {"type", "function", "partial", "_TypedWrapper"} \cup UserClasses
\* hasattr(x, "__annotations__")
HasAnnotations(x) == x.kind \in {"function", "method"}

\* the attribute names that start with two underscores
Dunders == {"__init__", "__repr__", "__call__"}
startswith__(attr) == attr \in Dunders

\* getattr(obj, attr): a _TypedWrapper found in a class is a descriptor and
\* answers through __get__(None, klass)
getattr(obj, attr) ==
    LET x == Get(obj.items, attr)
    IN  IF obj.kind = "type" /\ x.kind = "_TypedWrapper"
        THEN __get__(x, NoneV, obj)
        ELSE x

\* setattr(obj, name, value)
setattr(obj, name, value) == [obj EXCEPT !.items = Put(obj.items, name, value)]

\* from_class, first half: the methods it collects
MethodsOf(obj) ==
    LET attrs == [i \in 1..Len(obj.items) |-> obj.items[i].k]
        IsMethod(attr) ==
            /\ getattr(obj, attr).kind \in {"method", "function"}
            /\ ~startswith__(attr)
        found == SelectSeq(attrs, IsMethod)
    IN  [i \in 1..Len(found) |-> getattr(obj, found[i])]
        \o (IF Has(obj.items, "__init__") THEN <<getattr(obj, "__init__")>>
            ELSE <<>>)

\* The result of typed(x), and of the loop of from_class over an object:
\*   exc     the exception that escapes, "" when none does
\*   result  what typed returns
\*   obj     the object afterwards (setattr changes it in place)
\*   wraps   the names of the functions a wrapper was stored for, in order
Applied(exc, result, obj, wraps) ==
    [exc |-> exc, result |-> result, obj |-> obj, wraps |-> wraps]

RECURSIVE WrapMethods(_, _, _)
RECURSIVE typedObject(_)

\* from_class, second half: for method in methods
WrapMethods(obj, methods, wraps) ==
    IF methods = <<>> THEN Applied("", NoneV, obj, wraps)
    ELSE IF Head(methods).kind = "wrapper_descriptor"
         THEN WrapMethods(obj, Tail(methods), wraps)
    ELSE LET typedmethod == typedObject(Head(methods))
         IN  IF typedmethod.exc # ""
             THEN Applied(typedmethod.exc, NoneV, obj, wraps)
             \* typedmethod.func.__name__ of what is no wrapper
             ELSE IF typedmethod.result.kind # "_TypedWrapper"
             THEN Applied("AttributeError", NoneV, obj, wraps)
             ELSE WrapMethods(
                     setattr(obj, typedmethod.result.nm, typedmethod.result),
                     Tail(methods), Append(wraps, typedmethod.result.nm))

\* _TypedWrapper.from_class(klass)
from_class(obj) == WrapMethods(obj, MethodsOf(obj), <<>>)

\* typed(func) for whatever it is handed: an object with a __dict__ and no
\* __code__ goes to from_class and is returned, anything else to
\* _TypedWrapper(func)
typedObject(func) ==
    IF ~HasCode(func) /\ HasDict(func)
    THEN Applied(from_class(func).exc, from_class(func).obj,
                 from_class(func).obj, from_class(func).wraps)
    ELSE IF func.kind = "wrapper_descriptor"
         THEN Applied("TypeError", NoneV, func, <<>>)
    ELSE IF ~HasAnnotations(func)
         THEN Applied("AttributeError", NoneV, func, <<>>)
    ELSE Applied("", WrapperV(func.nm), func, <<>>)

(***************************************************************************)
(* Bounds and the sets the inputs are drawn from.                          *)
(***************************************************************************)
MaxArgs == 2

ArgValues == {IntV("2"), StrV("3"), DictV(<<>>)}

RECURSIVE TuplesUpTo(_, _)
TuplesUpTo(S, n) ==
    IF n = 0 THEN {<<>>}
    ELSE TuplesUpTo(S, n - 1) \cup
         {Append(t, x) : t \in {u \in TuplesUpTo(S, n - 1) : Len(u) = n - 1},
                         x \in S}

ArgTuples == TuplesUpTo(ArgValues, MaxArgs)

KwargChoices == {<<>>} \cup {<<KV(k, v)>> : k \in {"x", "y"}, v \in ArgValues}

TargetReturns == {IntV("5"), StrV("s"), NoneV, DictV(<<>>), FuncV("test"),
                  CallableAliasV}

\* what a target may do once its body runs
Behaviours == {Returned(v) : v \in TargetReturns}
              \cup {Raised("ValueError", "target")}

Values ==
    {IntV("1"), StrV("a"), BoolV("True"), NoneV,
     ListV(<<>>), ListV(<<IntV("1")>>), ListV(<<IntV("1"), StrV("a")>>),
     TupleV(<<>>), TupleV(<<IntV("1"), StrV("a")>>),
     TupleV(<<IntV("1"), IntV("2"), IntV("3")>>),
     DictV(<<>>), DictV(<<StrV("a"), IntV("1")>>),
     DictV(<<IntV("1"), IntV("1")>>),
     FuncV("test"), ClassV("int"), ClassV("str"), CallableAliasV}

BaseTypes ==
    {AnyT, NoReturnT, NoneT, NoneTypeC, TypeT, TypeC,
     TypeVarT("X", <<IntC>>), TypeVarT("Y", <<>>),
     ListT, TupleT, DictT, CallableBareT, CallableOf(<<IntC>>, IntC),
     StrT("User"), IntC, StrC, ClassT("bool"), ClassT("list"),
     ClassT("tuple"), ClassT("dict"), ClassT("function"), ClassT("object")}

\* the plain classes among them
Classes == {t \in BaseTypes : t.tag = "Class"}

KeyTypes == {IntC, StrC, AnyT, StrT("User")}

\* the element lists of the Tuple[...] types drawn
TupleElements ==
    {<<a>> : a \in KeyTypes} \cup {<<a, b>> : a \in KeyTypes, b \in KeyTypes}

Types ==
    BaseTypes
    \cup {UnionOf(<<a, b>>) : a \in BaseTypes, b \in BaseTypes}
    \cup {TypeOf(a) : a \in BaseTypes}
    \cup {ListOf(a) : a \in BaseTypes}
    \cup {DictOf(k, v) : k \in KeyTypes, v \in KeyTypes}
    \cup {TupleOf(<<IntC, StrC>>)}
    \cup {TupleOf(es) : es \in TupleElements}

\* how often typed is applied to one object
MaxApply == 2

\* class Point: __init__(self, x: int), __repr__, move
PointClass ==
    ClassObj("Point", <<KV("__init__", FuncV("__init__")),
                        KV("__repr__", FuncV("__repr__")),
                        KV("move", FuncV("move"))>>)
\* class Plain: no __init__ of its own; __repr__, get
PlainClass ==
    ClassObj("Plain", <<KV("__init__", SlotWrapperV),
                        KV("__repr__", FuncV("__repr__")),
                        KV("get", FuncV("get"))>>)
\* class Aliased: def run(self, x: int) -> int; go = run
AliasedClass ==
    ClassObj("Aliased", <<KV("__init__", SlotWrapperV),
                          KV("go", FuncV("run")),
                          KV("run", FuncV("run"))>>)
\* Point(1) and Plain(), which cannot be called
PointInstance ==
    InstanceV("Point", <<KV("__init__", MethodV("__init__")),
                         KV("__repr__", MethodV("__repr__")),
                         KV("move", MethodV("move")),
                         KV("x", IntV("1"))>>)
PlainInstance ==
    InstanceV("Plain", <<KV("__init__", MethodWrapperV),
                         KV("__repr__", MethodV("__repr__")),
                         KV("get", MethodV("get"))>>)

Decorated == {PointClass, PlainClass, AliasedClass,
              PointInstance, PlainInstance, IntV("5")}

(***************************************************************************)
(* The matcher on its own: a value and a declared type are drawn, and      *)
(* _typecheck is applied to them.                                          *)
(***************************************************************************)
\* An application of typed to klass: the n-th; prev is the object before
\* it, out what the caller of typed got
Application(n, prev, out, wraps) ==
    [n |-> n, prev |-> prev, out |-> out, wraps |-> wraps]
NoApplication == Application(0, NoValue, NoOutcome, <<>>)

\* A method call inst.attr(given): func is the function behind the
\* attribute, contracted whether the attribute was a _TypedWrapper
Access(attr, func, recv, given, contracted) ==
    [attr |-> attr, func |-> func, recv |-> recv, given |-> given,
     contracted |-> contracted]
NoAccess == Access("", "", NoValue, <<>>, FALSE)

NoClass == klass = NoValue /\ deco = NoApplication /\ via = NoAccess

Idle == /\ w = NoWrapper /\ call = NoCall
        /\ received = NoValue /\ nested = NoWrapper

(***************************************************************************)
(* The other modules of the framework.  Each has its own state, at rest    *)
(* while another module is exercised.                                      *)
(***************************************************************************)

(***************************************************************************)
(* rtest.py: the assertion helpers.  Exception classes are named by their  *)
(* class name; Parent gives the base class of each.                        *)
(***************************************************************************)
ExcClasses == {"BaseException", "Exception", "KeyboardInterrupt",
               "LookupError", "KeyError", "IndexError", "ValueError",
               "TypeError", "AssertionError", "RAssertionError"}

Parent(c) ==
    CASE c = "BaseException"     -> "object"
      [] c = "Exception"         -> "BaseException"
      [] c = "KeyboardInterrupt" -> "BaseException"
      [] c = "LookupError"       -> "Exception"
      [] c = "KeyError"          -> "LookupError"
      [] c = "IndexError"        -> "LookupError"
      [] c = "ValueError"        -> "Exception"
      [] c = "TypeError"         -> "Exception"
      [] c = "AssertionError"    -> "Exception"
      \* class RAssertionError(AssertionError)
      [] c = "RAssertionError"   -> "AssertionError"
      [] OTHER                   -> "object"

\* issubclass(c, d): d is c or one of its bases
RECURSIVE issubclass(_, _)
issubclass(c, d) ==
    IF c = d THEN TRUE
    ELSE IF c = "object" THEN FALSE
    ELSE issubclass(Parent(c), d)

\* _assert(x, msg): returns when x is true, raises RAssertionError(msg)
_assert(x, msg) ==
    IF x THEN Returned(NoneV)
    ELSE Outcome("raise", NoneV, "RAssertionError", "assert", "", "", msg)

\* _assertError(func, type_, msg), func() ending as beh
_assertError(beh, type_, msg) ==
    IF beh.kind = "raise"
    THEN \* except type_: exc = True
         IF issubclass(beh.exc, type_) THEN _assert(TRUE, msg)
         \* except Exception: exc = False
         ELSE IF issubclass(beh.exc, "Exception") THEN _assert(FALSE, msg)
         \* anything else leaves the try statement as it is
         ELSE beh
    \* else: exc = True
    ELSE _assert(TRUE, msg)

\* assertRaises(func, exc, msg=msg)
assertRaises(beh, exc, msg) == _assertError(beh, exc, msg)

\* an assertRaises call: how func() ended, the expected class, the message,
\* and how the assertion ended
Assertion(func, exc, msg, out) ==
    [func |-> func, exc |-> exc, msg |-> msg, out |-> out]
NoAssertion == assertion = Assertion(NoOutcome, "", "", NoOutcome)

(***************************************************************************)
(* interface.py: interfaces and the classes declared under them.  A class  *)
(* body is the sequence of its attrs in the order of definition; a method  *)
(* is known by how its body was written.                                   *)
(***************************************************************************)
\* a def in a class body; code is "ellipsis", "pass" or "return"
Method(name, code) ==
    [name |-> name, kind |-> "function", code |-> code, val |-> FuncV(name)]
\* name = value in a class body
Attr(name, v) == [name |-> name, kind |-> "value", code |-> "", val |-> v]

\* func.__code__.co_code: a body of "..." and a body of "pass" both compile
\* to loading None and returning it
co_code(code) ==
    IF code \in {"ellipsis", "pass"} THEN "LOAD_CONST None; RETURN_VALUE"
    ELSE "LOAD_FAST; RETURN_VALUE"

ELLIPSIS_CO_CODE == co_code("ellipsis")

\* a class made by _InterfaceMeta: __interface__, and for an interface the
\* methods to implement and the annotated attributes
InterfaceObj(isiface, methods, attrs) ==
    [__interface__ |-> isiface, _Interface_methods |-> methods,
     _Interface_attrs |-> attrs]
NoInterfaceObj == InterfaceObj(FALSE, <<>>, <<>>)

\* _InterfaceMeta.__new__ for a body whose first base is Interface
RECURSIVE _Interface_methods(_)
_Interface_methods(attrs) ==
    IF attrs = <<>> THEN <<>>
    ELSE LET rest == _Interface_methods(SubSeq(attrs, 1, Len(attrs) - 1))
             last == attrs[Len(attrs)]
         IN  IF last.kind = "function" /\ co_code(last.code) = ELLIPSIS_CO_CODE
             THEN Append(rest, last.name)
             ELSE rest

DefineInterfaceObj(annotations, attrs) ==
    InterfaceObj(TRUE, _Interface_methods(attrs), annotations)

isinterface(x) == x.__interface__

InSeq(x, xs) == \E i \in 1..Len(xs) : xs[i] = x

\* the result of a class statement: exc is "" when the class was made
Defined(exc, why, implemented) ==
    [exc |-> exc, why |-> why, implemented |-> implemented]

\* the loop over attrs in the implementation branch, from the i-th attr on,
\* and the comparison that follows it
RECURSIVE CheckAttrs(_, _, _, _)
CheckAttrs(interface, attrs, i, implemented) ==
    IF i > Len(attrs)
    THEN \* if implemented != methods: a comparison of two lists
         IF implemented # interface._Interface_methods
         THEN Defined("ImplementationError", "no implementation for methods",
                      implemented)
         ELSE Defined("", "", implemented)
    ELSE IF InSeq(attrs[i].name, interface._Interface_methods)
    THEN \* val.__code__ of a value that is no function
         IF attrs[i].kind # "function"
         THEN Defined("AttributeError", "__code__", implemented)
         ELSE IF co_code(attrs[i].code) = ELLIPSIS_CO_CODE
         THEN Defined("ImplementationError", "unimplemented method",
                      implemented)
         ELSE CheckAttrs(interface, attrs, i + 1,
                         Append(implemented, attrs[i].name))
    ELSE IF Has(interface._Interface_attrs, attrs[i].name)
    THEN IF ~InstanceOf(attrs[i].val,
                        Get(interface._Interface_attrs, attrs[i].name))
         THEN Defined("ImplementationError", "wrong type", implemented)
         ELSE CheckAttrs(interface, attrs, i + 1, implemented)
    ELSE CheckAttrs(interface, attrs, i + 1, implemented)

\* _InterfaceMeta.__new__ for a body whose first base is interface
DefineImplementation(interface, attrs) ==
    IF ~isinterface(interface) THEN Defined("TypeError", "invalid interface", <<>>)
    ELSE CheckAttrs(interface, attrs, 1, <<>>)

\* a class statement under iface: its body and how it ended
ClassStatement(attrs, out) == [attrs |-> attrs, out |-> out]
NoClassStatement == ClassStatement(<<>>, Defined("none", "", <<>>))

NoInterface == iface = NoInterfaceObj /\ impl = NoClassStatement

(***************************************************************************)
(* override.py: overrides of one function name, kept by one manager under  *)
(* a hash of their annotation types.  A type is named by its class name;   *)
(* id gives the address of each type object, fixed for one run.            *)
(***************************************************************************)
TypeNames == {"int", "str", "float"}

\* an overriding function: the n-th definition of the name, the types its
\* parameters are annotated with, and its return annotation ("": none)
Func(n, params, ret) == [n |-> n, params |-> params, ret |-> ret]
NoFunc == Func(0, <<>>, "")

\* list(func.__annotations__.values()): the parameters' annotations in
\* order, then the return annotation if there is one
AnnotationValues(func) ==
    IF func.ret = "" THEN func.params ELSE Append(func.params, func.ret)

\* _getHash(types): the ids added and subtracted in turn
RECURSIVE _getHash(_)
_getHash(types) ==
    IF types = <<>> THEN 0
    ELSE LET n == Len(types)
             acc == _getHash(SubSeq(types, 1, n - 1))
         IN  IF (n - 1) % 2 = 0 THEN acc + id[types[n]] ELSE acc - id[types[n]]

\* _OverrideManager._addOverride(func): self._overrides[name][hash] = func
_addOverride(overrides, func) ==
    Put(overrides, _getHash(AnnotationValues(func)), func)

\* A call of the wrapper: the types of the positional arguments, how it
\* ended, by whom an exception was raised, and the override called
OverrideCall(args, out, by, to) ==
    [args |-> args, out |-> out, by |-> by, to |-> to]
NoOverrideCall == OverrideCall(<<>>, "", "", NoFunc)

\* _OverrideManager._callOverride(func, args, kwargs), args given by their
\* types; the override found is called and binds its parameters
_callOverride(overrides, types) ==
    LET hash == _getHash(types)
    IN  IF ~Has(overrides, hash)
        THEN OverrideCall(types, "TypeError", "no override available", NoFunc)
        ELSE IF Len(Get(overrides, hash).params) # Len(types)
        THEN OverrideCall(types, "TypeError", "call", Get(overrides, hash))
        ELSE OverrideCall(types, "return", "", Get(overrides, hash))

NoIds == [t \in TypeNames |-> 0]

NoOverrides ==
    /\ id = NoIds /\ _overrides = <<>> /\ declared = <<>>
    /\ ovcall = NoOverrideCall

(***************************************************************************)
(* framework.py: the event registry.  An event is given as a string or as  *)
(* an int; functions are named by their names.                             *)
(***************************************************************************)
EvStr(s) == [kind |-> "str", s |-> s, n |-> 0]
EvInt(n) == [kind |-> "int", s |-> "", n |-> n]

\* Events = enum("FRAMEWORK_LOAD", "FRAMEWORK_FINALIZE", "MODULE_LOAD",
\* "EVENT"): the keys with the values enum() counts out
Events == <<KV("FRAMEWORK_LOAD", 0), KV("FRAMEWORK_FINALIZE", 1),
            KV("MODULE_LOAD", 2), KV("EVENT", 3)>>
Events_EVENT == EvInt(Get(Events, "EVENT"))

DictValues(d) == {d[i].v : i \in 1..Len(d)}
Del(d, k) == SelectSeq(d, LAMBDA e : e.k # k)
\* list(d.keys())[list(d.values()).index(v)]
KeyOf(d, v) ==
    d[CHOOSE i \in 1..Len(d) :
         d[i].v = v /\ \A j \in 1..(i - 1) : d[j].v # v].k

\* ord(c) for the characters of the event names used
ord(s) ==
    CASE s = "a"  -> <<97>>
      [] s = "ba" -> <<98, 97>>
      [] s = "ab" -> <<97, 98>>
      [] s = "x"  -> <<120>>
      [] s = "y"  -> <<121>>

\* the sum of ord(c) - 97 over the name, added and subtracted in turn
RECURSIVE NameSum(_)
NameSum(os) ==
    IF os = <<>> THEN 0
    ELSE LET i == Len(os) - 1
             acc == NameSum(SubSeq(os, 1, i))
         IN  IF i % 2 = 0 THEN acc + (os[i + 1] - 97)
             ELSE acc - (os[i + 1] - 97)

\* while code in Events.__dict__.values() or code in _eventCache.values()
RECURSIVE FreeCode(_, _)
FreeCode(code, cache) ==
    IF code \in DictValues(Events) \/ code \in DictValues(cache)
    THEN FreeCode(code + 1, cache)
    ELSE code

\* _getEventCode(event): [code, cache], the cache as the call leaves it
_getEventCode(cache, event) ==
    IF event.kind = "int" THEN [code |-> event.n, cache |-> cache]
    ELSE IF Has(cache, event.s)
         THEN [code |-> Get(cache, event.s), cache |-> cache]
    ELSE IF Has(Events, event.s)
         THEN [code |-> Get(Events, event.s), cache |-> cache]
    ELSE LET code == FreeCode(NameSum(ord(event.s)), cache)
         IN  [code |-> code, cache |-> Put(cache, event.s, code)]

\* _getEventName(event), asked with the event as do() was given it: a
\* string equals none of the int values
_getEventName(cache, event) ==
    IF event.kind = "int" /\ event.n \in DictValues(Events)
    THEN [exc |-> "", name |-> KeyOf(Events, event.n)]
    ELSE IF event.kind = "int" /\ event.n \in DictValues(cache)
    THEN [exc |-> "", name |-> KeyOf(cache, event.n)]
    ELSE [exc |-> "ValueError", name |-> ""]

\* list.remove(x): the first occurrence goes
RemoveFirst(xs, x) ==
    LET i == CHOOSE i \in 1..Len(xs) :
                 xs[i] = x /\ \A j \in 1..(i - 1) : xs[j] # x
    IN  SubSeq(xs, 1, i - 1) \o SubSeq(xs, i + 1, Len(xs))

\* on(event, function), for the code of the event
on(registry, code, function) ==
    IF Has(registry, code)
    THEN Put(registry, code, Append(Get(registry, code), function))
    ELSE Put(registry, code, <<function>>)

\* remove(event, function), for the code of the event
remove(registry, code, function) ==
    IF Has(registry, code) /\ InSeq(function, Get(registry, code))
    THEN IF Len(Get(registry, code)) = 1 THEN Del(registry, code)
         ELSE Put(registry, code, RemoveFirst(Get(registry, code), function))
    ELSE registry

\* for function in toRemove: remove(event, function)
RECURSIVE RemoveEach(_, _, _)
RemoveEach(registry, code, toRemove) ==
    IF toRemove = <<>> THEN registry
    ELSE RemoveEach(remove(registry, code, Head(toRemove)), code,
                    Tail(toRemove))

\* a call of a registered function: the function, the code it was under
Called(f, code) == [f |-> f, code |-> code]

\* the functions do() calls for one code, in order
Listeners(registry, code) ==
    IF Has(registry, code) THEN Get(registry, code) ELSE <<>>

\* the part of do() from "if code not in _registry" on: every function
\* under the code is called, and those carrying __FRAMEWORK_ON_ONCE__ are
\* removed from that code
Trigger(registry, once, code) ==
    LET fs == Listeners(registry, code)
    IN  [called |-> [i \in 1..Len(fs) |-> Called(fs[i], code)],
         registry |-> RemoveEach(registry, code,
                                 SelectSeq(fs, LAMBDA f : f \in once))]

\* do(event): [exc, called, registry, cache]
do(registry, cache, once, event) ==
    LET c  == _getEventCode(cache, event)
        nm == _getEventName(c.cache, event)
        ev == Trigger(registry, once, Events_EVENT.n)
        own == Trigger(ev.registry, once, c.code)
    IN  IF event = Events_EVENT
        THEN LET only == Trigger(registry, once, c.code)
             IN  [exc |-> "", called |-> only.called,
                  registry |-> only.registry, cache |-> c.cache]
        ELSE IF nm.exc # ""
        THEN [exc |-> nm.exc, called |-> <<>>, registry |-> registry,
              cache |-> c.cache]
        ELSE [exc |-> "", called |-> ev.called \o own.called,
              registry |-> own.registry, cache |-> c.cache]

\* a call of on, onOnce, remove or do, with the code of its event
ApiCall(op, code, f) == [op |-> op, code |-> code, f |-> f]

\* the last do(): its place in history, its event and code, the calls it
\* made and the exception it ended with
Done(at, event, code, called, exc) ==
    [at |-> at, event |-> event, code |-> code, called |-> called,
     exc |-> exc]
NoDo == Done(0, EvInt(0), 0, <<>>, "")

NoFramework ==
    /\ _registry = <<>> /\ _eventCache = <<>> /\ marked = {}
    /\ history = <<>> /\ fwdo = NoDo

(***************************************************************************)
(* events.py: EventManager.  A callback is known by what it does when it   *)
(* is called: "ok" (it returns), "defer" (an EXCEPTION handler that calls  *)
(* the defer function it is handed) or the class of the exception it       *)
(* raises.  errCallback is "" for a binding without onError.               *)
(***************************************************************************)
\* the values enum() counts out for the built-in events
CALLBACK_ERROR == 4
EXCEPTION == 5
BuiltinCodes == 0..EXCEPTION

\* while Events._hasValue(code): code += 1
RECURSIVE NextFree(_)
NextFree(code) == IF code \in BuiltinCodes THEN NextFree(code + 1) ELSE code

\* events._getEventCode(event) for a name that is no built-in event
EventCode(name) == NextFree(NameSum(ord(name)))

\* an EventBinding after on(event).do(callback) and, if errCallback is not
\* "", onError(errCallback); n tells the bindings apart
EventBinding(n, eventCode, callback, errCallback) ==
    [n |-> n, eventCode |-> eventCode, callback |-> callback,
     errCallback |-> errCallback, once |-> FALSE]
NoBinding == EventBinding(0, 0, "", "")

Manager(current, defer, registry) ==
    [_current_bind |-> current, _should_defer |-> defer,
     _registry |-> registry]

\* EventManager._finalize_bind(): [exc, manager]
_finalize_bind(m) ==
    LET bind == m._current_bind
        cleared == [m EXCEPT !._current_bind = NoBinding]
    IN  IF bind = NoBinding THEN [exc |-> "", manager |-> m]
        ELSE IF bind.callback = ""
        THEN [exc |-> "TypeError", manager |-> cleared]
        ELSE [exc |-> "",
              manager |-> [cleared EXCEPT !._registry =
                              on(m._registry, bind.eventCode, bind)]]

\* a call made by do(): the binding, which of its callbacks ("callback",
\* "onError") or "handler" for an EXCEPTION handler, and whether the do()
\* that made it is the one the caller called (0) or the one it runs for
\* CALLBACK_ERROR (1)
Ran(n, what, depth) == [n |-> n, what |-> what, depth |-> depth]

\* an error kept for later: the exception and the binding it came from
Kept_(exc, binding) == [exc |-> exc, binding |-> binding]

\* whether the callback raises when it is called
Raises(behaviour) == behaviour \notin {"ok", "defer", ""}

\* a handler that lets every exception of a callback through
CatchesNothing(exc) == FALSE

\* except Exception as exc: what the handler around a callback catches
Caught(exc) == issubclass(exc, "Exception")

\* the first loop of do(): every callback is called, the exceptions are
\* kept with their bindings
RECURSIVE RunCallbacks(_, _, _, _, _)
RunCallbacks(bs, i, depth, log, errors) ==
    IF i > Len(bs) THEN [exc |-> "", log |-> log, errors |-> errors]
    ELSE LET ran == Append(log, Ran(bs[i].n, "callback", depth))
         IN  IF ~Raises(bs[i].callback)
             THEN RunCallbacks(bs, i + 1, depth, ran, errors)
             ELSE IF Caught(bs[i].callback)
             THEN RunCallbacks(bs, i + 1, depth, ran,
                               Append(errors, Kept_(bs[i].callback, bs[i])))
             ELSE [exc |-> bs[i].callback, log |-> ran, errors |-> errors]

\* the second loop: the onError callback of each binding that failed is
\* called; without holds the errors of bindings that have none, failed the
\* errors raised by onError callbacks
RECURSIVE RunErrCallbacks(_, _, _, _, _, _)
RunErrCallbacks(errors, i, depth, log, without, failed) ==
    IF i > Len(errors)
    THEN [exc |-> "", log |-> log, without |-> without, failed |-> failed]
    ELSE LET b == errors[i].binding
             ran == Append(log, Ran(b.n, "onError", depth))
         IN  IF b.errCallback = ""
             THEN RunErrCallbacks(errors, i + 1, depth, log,
                                  Append(without, errors[i]), failed)
             ELSE IF ~Raises(b.errCallback)
             THEN RunErrCallbacks(errors, i + 1, depth, ran, without, failed)
             ELSE IF Caught(b.errCallback)
             THEN RunErrCallbacks(errors, i + 1, depth, ran, without,
                                  Append(failed, Kept_(b.errCallback, b)))
             ELSE [exc |-> b.errCallback, log |-> ran, without |-> without,
                   failed |-> failed]

\* the loop of _do_exception_event over the EXCEPTION handlers from the
\* i-th on: a handler that defers lets the next one look at the exception,
\* one that returns without deferring has it raised, one that raises ends
\* the loop with its own exception
RECURSIVE RunHandlers(_, _, _, _, _)
RunHandlers(hs, i, exc, depth, log) ==
    IF i > Len(hs) THEN [exc |-> "", log |-> log]
    ELSE LET ran == Append(log, Ran(hs[i].n, "handler", depth))
         IN  IF hs[i].callback = "defer"
             THEN RunHandlers(hs, i + 1, exc, depth, ran)
             ELSE IF Raises(hs[i].callback)
             THEN [exc |-> hs[i].callback, log |-> ran]
             ELSE [exc |-> exc, log |-> ran]

\* EventManager._do_exception_event(exc, binding)
_do_exception_event(registry, exc, depth, log) ==
    IF ~Has(registry, EXCEPTION) THEN [exc |-> exc, log |-> log]
    ELSE RunHandlers(Get(registry, EXCEPTION), 1, exc, depth, log)

\* the last loop of do(): each error of a binding without onError goes to
\* _do_exception_event; the first exception that comes out ends do()
RECURSIVE RaiseUnhandled(_, _, _, _, _)
RaiseUnhandled(registry, without, i, depth, log) ==
    IF i > Len(without) THEN [exc |-> "", log |-> log]
    ELSE LET r == _do_exception_event(registry, without[i].exc, depth, log)
         IN  IF r.exc # "" THEN r
             ELSE RaiseUnhandled(registry, without, i + 1, depth, r.log)

\* do(event) without the loop that sends out CALLBACK_ERROR, as it runs
\* for the event CALLBACK_ERROR itself
DoLoops(registry, code, depth, log) ==
    LET first  == RunCallbacks(Listeners(registry, code), 1, depth, log, <<>>)
        second == RunErrCallbacks(first.errors, 1, depth, first.log, <<>>,
                                  <<>>)
    IN  IF first.exc # "" THEN [exc |-> first.exc, log |-> first.log,
                                without |-> <<>>, failed |-> <<>>]
        ELSE second

\* cls.do(Events.CALLBACK_ERROR, binding, exc)
DoCallbackError(registry, log) ==
    LET loops == DoLoops(registry, CALLBACK_ERROR, 1, log)
    IN  IF loops.exc # "" THEN [exc |-> loops.exc, log |-> loops.log]
        ELSE RaiseUnhandled(registry, loops.without, 1, 1, loops.log)

\* the third loop: a CALLBACK_ERROR event for each error of an onError
\* callback, unless the event is CALLBACK_ERROR itself
RECURSIVE SendCallbackErrors(_, _, _, _, _)
SendCallbackErrors(registry, code, failed, i, log) ==
    IF i > Len(failed) \/ code = CALLBACK_ERROR
    THEN [exc |-> "", log |-> log]
    ELSE LET r == DoCallbackError(registry, log)
         IN  IF r.exc # "" THEN r
             ELSE SendCallbackErrors(registry, code, failed, i + 1, r.log)

\* cls._should_defer once the calls in log were made: each handler call
\* begins by clearing it, and a handler that defers sets it
ShouldDefer(registry, log, before) ==
    IF \A i \in 1..Len(log) : log[i].what # "handler" THEN before
    ELSE LET k  == CHOOSE k \in 1..Len(log) :
                      /\ log[k].what = "handler"
                      /\ \A j \in (k + 1)..Len(log) : log[j].what # "handler"
             hs == Get(registry, EXCEPTION)
             h  == CHOOSE h \in 1..Len(hs) : hs[h].n = log[k].n
         IN  hs[h].callback = "defer"

\* EventManager.do(event) for the code of the event: [exc, log, manager]
EventManager_do(m, code) ==
    LET fin   == _finalize_bind(m)
        reg   == fin.manager._registry
        loops == DoLoops(reg, code, 0, <<>>)
        sent  == SendCallbackErrors(reg, code, loops.failed, 1, loops.log)
        last  == RaiseUnhandled(reg, loops.without, 1, 0, sent.log)
        end   == IF fin.exc # "" THEN [exc |-> fin.exc, log |-> <<>>]
                 ELSE IF ~Has(reg, code) THEN [exc |-> "", log |-> <<>>]
                 ELSE IF loops.exc # ""
                      THEN [exc |-> loops.exc, log |-> loops.log]
                 ELSE IF sent.exc # "" THEN sent
                 ELSE last
    IN  [exc |-> end.exc, log |-> end.log,
         manager |-> [fin.manager EXCEPT !._should_defer =
                         ShouldDefer(reg, end.log, m._should_defer)]]

\* the last do(): the event's code, the bindings registered for it when
\* the loop over them began, the calls made, the exception that reached
\* the caller
EventDone(code, bindings, log, exc) ==
    [code |-> code, bindings |-> bindings, log |-> log, exc |-> exc]
NoEventDone == EventDone(0, <<>>, <<>>, "none")

NoEvents ==
    /\ EventManager = Manager(NoBinding, FALSE, <<>>)
    /\ evdo = NoEventDone

\* every binding in the registry, whatever its event
RECURSIVE Flatten_(_)
Flatten_(registry) ==
    IF registry = <<>> THEN <<>>
    ELSE Head(registry).v \o Flatten_(Tail(registry))

(***************************************************************************)
(* promise.py: a chain of promises.  promises[1] is the root and           *)
(* promises[i + 1] the promise promises[i].then(...) made, so _then and    *)
(* _parent are the neighbours in the sequence.  A function is known by     *)
(* what it does when called (an Outcome); the function of a chained        *)
(* promise takes the data as its one required parameter.  _error is the    *)
(* name of the handler, "" for none.                                       *)
(***************************************************************************)
\* PromiseStates = frozenenum("PENDING", "CANCELLED", "FINISHED")
PENDING == 0
CANCELLED == 1
FINISHED == 2

\* PromiseResult(status, promise, data)
FAILURE == 0
SUCCESS == 1
PromiseResult(status, data) ==
    Val("PromiseResult", IF status = SUCCESS THEN "SUCCESS" ELSE "FAILURE",
        <<data>>)

\* Promise(function)
Promise(function) ==
    [_state |-> PENDING, _result |-> NoneV, _exception |-> "",
     _error |-> "", _function |-> function]

\* a call of the function of promises[i] with args, and how it ended
Run(i, args, out) == [i |-> i, args |-> args, out |-> out]
\* a call of an error handler: the promise it is registered on, the class
\* of the exception it is handed
Handled(on_, exc) == [on_ |-> on_, exc |-> exc]

\* what a resolving step leaves: the chain, the calls of functions and of
\* handlers, and the exception that reaches the caller
Resolved(ps, log, handled, exc) ==
    [ps |-> ps, log |-> log, handled |-> handled, exc |-> exc]

\* p._function(args): the root's function takes no parameter, a chained
\* one exactly one
CallFunction(ps, i, args) ==
    IF (i = 1 /\ Len(args) # 0) \/ (i > 1 /\ Len(args) # 1)
    THEN Raised("TypeError", "call")
    ELSE ps[i]._function

\* self._get_error_handler() of promises[i]: the search starts at the next
\* promise, if there is one, and goes up through the parents; the place of
\* the promise whose handler is taken, 0 when the search ends at a root
\* without handler
RECURSIVE HandlerFrom(_, _)
HandlerFrom(ps, j) ==
    IF ps[j]._error # "" THEN j
    ELSE IF j = 1 THEN 0
    ELSE HandlerFrom(ps, j - 1)

_get_error_handler(ps, i) ==
    HandlerFrom(ps, IF i < Len(ps) THEN i + 1 ELSE i)

\* promises[i].cancel(), its exception being set: the state changes, then
\* the handler is called or the exception raised
cancel(ps, i, log) ==
    LET cancelled == [ps EXCEPT ![i]._state = CANCELLED]
        h == _get_error_handler(ps, i)
    IN  IF h # 0
        THEN Resolved(cancelled, log, <<Handled(h, ps[i]._exception)>>, "")
        ELSE Resolved(cancelled, log, <<>>, ps[i]._exception)

\* args for promises[i]: the parent's result, unless it is None
ArgsFor(ps, i) ==
    IF i > 1 /\ ps[i - 1]._result # NoneV THEN <<ps[i - 1]._result>>
    ELSE <<>>

\* the loop of _get_result from promises[i] on
RECURSIVE ResultLoop(_, _, _)
ResultLoop(ps, i, log) ==
    LET args == ArgsFor(ps, i)
        out  == CallFunction(ps, i, args)
        ran  == Append(log, Run(i, args, out))
    IN  IF out.kind = "raise"
        THEN cancel([ps EXCEPT ![i]._exception = out.exc], i, ran)
        ELSE LET done == [ps EXCEPT ![i]._result = out.val,
                                    ![i]._state = FINISHED]
             IN  IF i = Len(ps) THEN Resolved(done, ran, <<>>, "")
                 ELSE ResultLoop(done, i + 1, ran)

\* root._get_result()
_get_result(ps) ==
    IF ps[1]._state # PENDING THEN Resolved(ps, <<>>, <<>>, "TypeError")
    \* if p._then is None: self._result = p._function(); return
    ELSE IF Len(ps) = 1
    THEN LET out == CallFunction(ps, 1, <<>>)
         IN  IF out.kind = "raise"
             THEN Resolved(ps, <<Run(1, <<>>, out)>>, <<>>, out.exc)
             ELSE Resolved([ps EXCEPT ![1]._result = out.val],
                           <<Run(1, <<>>, out)>>, <<>>, "")
    ELSE ResultLoop(ps, 1, <<>>)

\* the second half of get_result: the result is wrapped in a PromiseResult
WrapResult(ps) ==
    IF ps[1]._result.kind = "PromiseResult" THEN ps
    ELSE [ps EXCEPT ![1]._result =
             PromiseResult(IF ps[1]._exception # "" THEN FAILURE ELSE SUCCESS,
                           ps[1]._result)]

\* root.get_result(), after the calls in r
get_result(r) ==
    LET got == IF r.ps[1]._state = PENDING THEN _get_result(r.ps)
               ELSE Resolved(r.ps, <<>>, <<>>, "")
    IN  IF got.exc # ""
        THEN Resolved(got.ps, r.log \o got.log, r.handled \o got.handled,
                      got.exc)
        ELSE Resolved(WrapResult(got.ps), r.log \o got.log,
                      r.handled \o got.handled, "")

\* Promise.__enter__: root._get_result(), then root.get_result()
__enter__(ps) ==
    LET first == _get_result(ps)
    IN  IF first.exc # "" THEN first ELSE get_result(first)

\* the last resolving: "with" or "get_result", the how-manieth it is, the
\* chain before it, and what it left
Resolution(op, before, r) ==
    [op |-> op, nth |-> 0, before |-> before, log |-> r.log,
     handled |-> r.handled, exc |-> r.exc]
NoResolution == Resolution("", <<>>, Resolved(<<>>, <<>>, <<>>, ""))

NoPromises == promises = <<>> /\ resolution = NoResolution


NoThreads == threads = <<>>

LibIdle == /\ NoThreads
           /\ NoInterface
           /\ NoAssertion
           /\ NoFramework
           /\ NoOverrides
           /\ NoEvents
           /\ NoPromises

MatchInit ==
    /\ LibIdle
    /\ mv \in Values
    /\ mt \in Types
    /\ mres = "pending"
    /\ Idle
    /\ NoClass

Typecheck ==
    /\ mres = "pending"
    /\ mres' = _typecheck(mv, mt)
    /\ UNCHANGED <<mv, mt, w, call, received, nested, klass, deco, via>>
    /\ UNCHANGED libVars

MatchNext == Typecheck

SpecMatch == MatchInit /\ [][MatchNext]_vars

(***************************************************************************)
(* The contracted callable: a target is wrapped, the wrapper is called,    *)
(* and what it returned is called in turn.                                 *)
(***************************************************************************)
Init ==
    /\ LibIdle
    /\ mv = NoValue /\ mt = AnyT /\ mres = "pending"
    /\ Idle
    /\ NoClass

\* @typed on a function
Typed ==
    /\ w = NoWrapper
    /\ \E f \in Targets : w' = typed(f)
    /\ UNCHANGED <<mv, mt, mres, call, received, nested, klass, deco, via>>
    /\ UNCHANGED libVars

\* _TypedWrapper(func, wrap_callables=False)
TypedNoWrap ==
    /\ w = NoWrapper
    /\ \E f \in Targets : w' = TypedWrapperInit(f, False)
    /\ UNCHANGED <<mv, mt, mres, call, received, nested, klass, deco, via>>
    /\ UNCHANGED libVars

\* the target's behaviour is drawn only when its body runs
BehavioursAt(ran) == IF ran THEN Behaviours ELSE {NoOutcome}

\* w(args, kwargs)
Call ==
    /\ w # NoWrapper
    /\ \E args \in ArgTuples, kwargs \in KwargChoices :
         \E beh \in BehavioursAt(typedfunc(w, "w", args, kwargs, NoOutcome).ran) :
            /\ call' = TypedCall(w, "w", args, kwargs, beh)
            /\ received' = IF call'.out.kind = "return" THEN call'.out.val
                           ELSE NoValue
            /\ nested' = IF call'.out.kind = "return"
                         THEN WrappedReturn(w, call'.ret) ELSE NoWrapper
    /\ UNCHANGED <<mv, mt, mres, w, klass, deco, via>>
    /\ UNCHANGED libVars

\* g(args) for the g a call of w returned
CallReceived ==
    /\ received.kind \in {"function", "_TypedWrapper"}
    /\ \E args \in ArgTuples :
         IF received.kind = "_TypedWrapper"
         THEN \E beh \in BehavioursAt(
                      typedfunc(nested, "received", args, <<>>, NoOutcome).ran) :
                 call' = TypedCall(nested, "received", args, <<>>, beh)
         ELSE \E beh \in BehavioursAt(BindOk(Target(received.nm), args, <<>>)) :
                 call' = PlainCall(Target(received.nm), "received", args, <<>>,
                                   beh)
    /\ UNCHANGED <<mv, mt, mres, w, received, nested, klass, deco, via>>
    /\ UNCHANGED libVars

Next == Typed \/ TypedNoWrap \/ Call \/ CallReceived

Spec == Init /\ [][Next]_vars

(***************************************************************************)
(* typed applied to a class or another object, up to MaxApply times, and   *)
(* the methods of the class called on an instance.                         *)
(***************************************************************************)
ClassInit ==
    /\ LibIdle
    /\ mv = NoValue /\ mt = AnyT /\ mres = "pending"
    /\ Idle
    /\ klass \in Decorated
    /\ deco = NoApplication
    /\ via = NoAccess

\* typed(klass); only a class is decorated a second time
TypedClass ==
    /\ deco.n < MaxApply
    /\ klass.kind = "type" \/ deco.n = 0
    /\ klass' = typedObject(klass).obj
    /\ deco' = Application(deco.n + 1, klass,
                            IF typedObject(klass).exc = ""
                            THEN Returned(typedObject(klass).result)
                            ELSE Raised(typedObject(klass).exc, "typed"),
                            typedObject(klass).wraps)
    /\ UNCHANGED <<mv, mt, mres, w, call, received, nested, via>>
    /\ UNCHANGED libVars

\* inst.attr(given) on an instance of klass: Python finds attr in the class;
\* a _TypedWrapper there answers through __get__, a function is bound
CallMethod ==
    /\ klass.kind = "type"
    /\ \E i \in 1..Len(klass.items), given \in ArgTuples :
         LET attr == klass.items[i].k
             x    == klass.items[i].v
             inst == InstanceV(klass.nm, <<>>)
         IN  /\ attr = "__init__" \/ ~startswith__(attr)
             /\ x.kind \in {"function", "_TypedWrapper"}
             /\ via' = Access(attr, x.nm, inst, given, x.kind = "_TypedWrapper")
             /\ IF x.kind = "_TypedWrapper"
                THEN \E beh \in BehavioursAt(
                         CallPartial(__get__(x, inst, klass), "method", given,
                                     <<>>, NoOutcome).ran) :
                        call' = CallPartial(__get__(x, inst, klass), "method",
                                            given, <<>>, beh)
                ELSE \E beh \in BehavioursAt(
                         BindOk(Target(x.nm), <<inst>> \o given, <<>>)) :
                        call' = PlainCall(Target(x.nm), "method",
                                          <<inst>> \o given, <<>>, beh)
    /\ UNCHANGED <<mv, mt, mres, w, received, nested, klass, deco>>
    /\ UNCHANGED libVars

ClassNext == TypedClass \/ CallMethod

SpecClass == ClassInit /\ [][ClassNext]_vars

(***************************************************************************)
(* Properties of the contracted callable (checked under Spec).             *)
(***************************************************************************)
\* the invocation in call went through a contract, and this is the wrapper
Contracted ==
    \/ call.on = "w"
    \/ call.on = "received" /\ received.kind = "_TypedWrapper"
Callee == IF call.on = "w" THEN w ELSE nested

\* the declared type of each positional argument of the invocation in call
BoundArgs == ZipDict(Callee.args, call.args)
BoundCheck(i) == ArgCheck(Callee, BoundArgs, i)
Mismatched == {i \in 1..Len(BoundArgs) : BoundCheck(i) = False}
FirstMismatched == CHOOSE i \in Mismatched : \A j \in Mismatched : i <= j

\* the parameters of the signature the wrapper w declares for what it returns
SigParams == SubSeq(w.return_type.args, 1, Len(w.return_type.args) - 1)

\* C1: when w declares a callable signature Callable[[P1..Pn], R] as its
\* return type, wraps returned callables, and its target returns an invokable
\* value, the caller receives a contracted callable g; g called with an
\* argument that does not match its Pi fails with an argument type error,
\* and g called with matching arguments returns what the inner callable
\* returned.
C1_ReturnedCallableIsContracted ==
    (_isCallable(w.return_type) /\ w.wrap_callables = True) =>
        /\ (call.on = "w" /\ call.ret # NoValue /\ callable(call.ret)) =>
              /\ call.out.kind = "return"
              /\ call.out.val.kind = "_TypedWrapper"
        /\ (/\ call.on = "received"
            /\ \E i \in 1..Min(Len(call.args), Len(SigParams)) :
                  _typecheck(call.args[i], SigParams[i]) = False) =>
              /\ call.out.kind = "raise"
              /\ call.out.by = "arg"
        /\ (/\ call.on = "received" /\ call.ret # NoValue
            /\ \A i \in 1..Min(Len(call.args), Len(SigParams)) :
                  _typecheck(call.args[i], SigParams[i]) = True
            /\ _typecheck(call.ret, w.return_type.args[Len(w.return_type.args)])
                  = True) =>
              call.out = Returned(call.ret)

\* C2: an invocation with a positional argument that does not match its
\* parameter's declared type fails with the argument type error naming the
\* first such parameter; no later argument is checked and the target is not
\* called.
C2_FirstMismatchReported ==
    (Contracted /\ Mismatched # {}) =>
        /\ call.out.kind = "raise"
        /\ call.out.by = "arg"
        /\ call.out.fn = Callee.name
        /\ call.out.param = BoundArgs[FirstMismatched].k
        /\ call.checked = [i \in 1..FirstMismatched |-> BoundArgs[i].k]
        /\ ~call.called

\* C3: when the arguments pass, the target returns, and the result is not
\* re-wrapped: a result that matches the declared return type reaches the
\* caller unchanged, and one that does not match makes the invocation fail
\* with the return type error naming the function and the expected type.
C3_ReturnChecked ==
    (Contracted /\ call.ret # NoValue /\ call.retcheck) =>
        IF _typecheck(call.ret, Callee.return_type) = True
        THEN call.out = Returned(call.ret)
        ELSE call.out = ReturnTypeError(Callee.name,
                                        _getTypeName(Callee.return_type))

\* the type the target declares for a parameter, if it declares one
Declared(name) == Has(Target(Callee.func).ann, name)
DeclaredType(name) == Get(Target(Callee.func).ann, name)

\* C4: whenever the target's body runs, every argument bound to a parameter
\* with a declared type matched that type, whether it was passed by position
\* or by keyword.
C4_RunOnlyAfterArgumentsMatched ==
    (Contracted /\ call.ran) =>
        /\ \A i \in 1..Min(Len(call.args), Len(Target(Callee.func).pos)) :
              Declared(Target(Callee.func).pos[i]) =>
                 _typecheck(call.args[i],
                            DeclaredType(Target(Callee.func).pos[i])) = True
        /\ \A i \in 1..Len(call.kwargs) :
              Declared(call.kwargs[i].k) =>
                 _typecheck(call.kwargs[i].v,
                            DeclaredType(call.kwargs[i].k)) = True

\* C5: when every argument check passes, the target is called with exactly
\* the positional and keyword arguments of the invocation; a failure of that
\* call reaches the caller as it is, and no return check is made.
C5_TargetFailurePropagates ==
    (/\ Contracted
     /\ \A i \in 1..Len(BoundArgs) : BoundCheck(i) = True) =>
        /\ call.called
        /\ call.passed = Args(call.args, call.kwargs)
        /\ call.tout.kind = "raise" =>
              /\ call.out = call.tout
              /\ ~call.retcheck

\* a target called with a positional and a keyword argument raised, and the
\* caller got that failure
C5_Witness ==
    /\ call.on = "w"
    /\ call.ran
    /\ call.args # <<>> /\ call.kwargs # <<>>
    /\ call.tout = Raised("ValueError", "target")
    /\ call.out = Raised("ValueError", "target")

\* the declared type the contract holds for the i-th bound argument
BoundType(i) == Get(Callee.annotations, BoundArgs[i].k)
\* the invocation failed at the check of the i-th bound argument
FailedAt(i) ==
    /\ call.out.kind = "raise" /\ call.out.by \in {"arg", "matcher"}
    /\ Len(call.checked) = i

\* C13: a value checked against Any matches, whatever it is (None, a
\* container, a callable): a parameter declared Any never fails its check,
\* and a result checked against a return type Any reaches the caller
\* unchanged.
C13_AnyAlwaysMatches ==
    Contracted =>
        /\ \A i \in 1..Len(BoundArgs) :
              BoundType(i) = AnyT => (BoundCheck(i) = True /\ ~FailedAt(i))
        /\ (Callee.return_type = AnyT /\ call.retcheck) =>
              /\ _typecheck(call.ret, Callee.return_type) = True
              /\ call.out = Returned(call.ret)

\* a function that declares nothing was handed a dict and returned a
\* function: both went through the check against Any
C13_Witness ==
    /\ call.on = "w" /\ w.func = "identity"
    /\ call.args = <<DictV(<<>>)>>
    /\ w.return_type = AnyT /\ call.retcheck
    /\ call.out = Returned(FuncV("test"))

C15_CollectorsUnchecked ==
    (Contracted /\ Target(Callee.func).varargs) =>
        /\ Callee.args = Target(Callee.func).pos \o Target(Callee.func).kwonly
        /\ Len(call.checked) <= Len(Target(Callee.func).pos)
        /\ (\A i \in 1..Min(Len(call.args), Len(Target(Callee.func).pos)) :
                BoundCheck(i) = True) =>
              /\ call.called
              /\ call.passed = Args(call.args, call.kwargs)

\* C20: a callable wrapped with no declared types gives its caller exactly
\* what its target gives: the target is called with the arguments of the
\* invocation, and its result or failure is the invocation's.
C20_UntypedIsTransparent ==
    (Contracted /\ Target(Callee.func).ann = <<>>) =>
        /\ \A i \in 1..Len(BoundArgs) : BoundType(i) = AnyT
        /\ Callee.return_type = AnyT
        /\ call.called
        /\ call.passed = Args(call.args, call.kwargs)
        /\ call.out = call.tout

(***************************************************************************)
(* Properties of typed on classes and other objects (checked under         *)
(* SpecClass).                                                             *)
(***************************************************************************)
\* C16: typed applied to an object that cannot be called fails: the caller
\* gets an exception and not the object, and no wrapper has been stored.
C16_NonInvokableRejected ==
    (deco.n = 1 /\ deco.prev.kind \notin {"type", "function"}) =>
        /\ deco.out.kind = "raise"
        /\ deco.wraps = <<>>
        /\ klass = deco.prev

\* the wrapper behind the method call in call
MethodWrapper == typed(Target(via.func))
\* the check of the i-th given argument against the declared type of the
\* (i+1)-th parameter of the method
GivenCheck(i) ==
    _typecheck(via.given[i],
               Get(MethodWrapper.annotations, MethodWrapper.args[i + 1]))
\* the arguments that meet a parameter
Met == 1..Min(Len(via.given), Len(MethodWrapper.args) - 1)

\* C17: a contracted method called on an instance gets the instance as its
\* first argument and the given arguments after it; the i-th given argument
\* is checked against the declared type of the (i+1)-th parameter: the
\* first one that does not match fails the call with the argument type
\* error naming that parameter, and when all match the target is called
\* with the receiver and the given arguments.
C17_BoundMethodKeepsContract ==
    (call.on = "method" /\ via.contracted) =>
        /\ call.args = <<via.recv>> \o via.given
        /\ \A i \in Met :
              (\A j \in 1..(i - 1) : GivenCheck(j) = True) =>
                 /\ Len(call.checked) >= i + 1
                 /\ call.checked[i + 1] = MethodWrapper.args[i + 1]
                 /\ GivenCheck(i) = False =>
                       call.out = ArgumentTypeError(MethodWrapper.name,
                                     MethodWrapper.args[i + 1],
                                     _getTypeName(Get(MethodWrapper.annotations,
                                                      MethodWrapper.args[i + 1])))
        /\ (\A i \in Met : GivenCheck(i) = True) =>
              /\ call.called
              /\ call.passed = Args(<<via.recv>> \o via.given, <<>>)

\* move was called on a Point with a str: the check of dx failed the call
C17_Witness ==
    /\ call.on = "method" /\ via.contracted
    /\ via.attr = "move" /\ via.given = <<StrV("3")>>
    /\ call.out = ArgumentTypeError("move", "dx", "int")

\* the attributes of a class that from_class is to wrap
Exposed(obj) ==
    {i \in 1..Len(obj.items) :
        /\ obj.items[i].v.kind = "function"
        /\ (obj.items[i].k = "__init__" \/ ~startswith__(obj.items[i].k))}
\* how often a wrapper was made for the function of that name
TimesWrapped(name) ==
    Cardinality({j \in 1..Len(deco.wraps) : deco.wraps[j] = name})

\* C18: after typed has been applied once to a class, every non-dunder
\* method and the initializer is a wrapper around that method stored under
\* the attribute's own name, every other attribute is untouched, and each
\* method has been wrapped exactly once.
C18_ClassWrappedOnce ==
    (deco.n = 1 /\ deco.prev.kind = "type") =>
        /\ deco.out = Returned(klass)
        /\ Len(klass.items) = Len(deco.prev.items)
        /\ \A i \in 1..Len(deco.prev.items) :
              /\ klass.items[i].k = deco.prev.items[i].k
              /\ IF i \in Exposed(deco.prev)
                 THEN /\ klass.items[i].v = WrapperV(deco.prev.items[i].v.nm)
                      /\ TimesWrapped(deco.prev.items[i].v.nm) = 1
                 ELSE klass.items[i].v = deco.prev.items[i].v
        /\ Len(deco.wraps) = Cardinality(Exposed(deco.prev))

\* an error that tells the caller typed was applied to the class before
DoubleApplicationError == Raised("TypeError", "double application")

\* C19: the second application of typed to a class either fails with an
\* error reporting the double application or returns the class and leaves
\* it as the first application left it, so that every call behaves the
\* same.
C19_SecondApplication ==
    (deco.n = 2 /\ deco.prev.kind = "type") =>
        \/ deco.out = DoubleApplicationError
        \/ /\ deco.out = Returned(klass)
           /\ klass = deco.prev

(***************************************************************************)
(* Properties of the matcher (checked under SpecMatch).                    *)
(***************************************************************************)
Matched == mres # "pending"

\* the plain classes that name a nominal type; type itself is the matcher's
\* wildcard
NominalClasses == Classes \ {TypeC}

\* C6: matching a value against a plain class is true exactly when the value
\* is an instance of the class.
C6_NominalIffInstance ==
    (Matched /\ mt \in NominalClasses) => mres = Bool(InstanceOf(mv, mt.nm))

\* C7: matching a value against a callable signature Callable[[...], R] is
\* true exactly when the value is invokable.
C7_CallableIffInvokable ==
    (Matched /\ mt.tag = "Callable") => mres = Bool(callable(mv))

\* the value denotes a type/class
IsClass(v) == v.kind = "type"

\* C8: matching against bare Type is true exactly when the value is a class;
\* matching against Type[X] is true exactly when the value is a class and
\* the value matches X.
C8_TypeReference ==
    /\ (Matched /\ mt = TypeT) => (mres = True <=> IsClass(mv))
    /\ (Matched /\ mt.tag = "TypeSub") =>
          (mres = True <=>
              (IsClass(mv) /\ _typecheck(mv, mt.args[1]) = True))

\* C9: matching against a Dict type is false for a value that is no dict,
\* true for every dict when the type has no key and value types, and
\* otherwise true exactly when every key matches the key type and every
\* value the value type; so a parameter declared as bare Dict rejects a list
\* with the argument type error and accepts any dict.
C9_DictMatching ==
    /\ (Matched /\ mt.tag = "Dict" /\ mv.kind # "dict") => mres = False
    /\ (Matched /\ mt = DictT /\ mv.kind = "dict") => mres = True
    /\ (Matched /\ mt.tag = "Dict" /\ mt # DictT /\ mv.kind = "dict") =>
          (mres = True <=>
              /\ \A i \in 1..Len(keys(mv)) :
                    _typecheck(keys(mv)[i], mt.args[1]) = True
              /\ \A i \in 1..Len(values(mv)) :
                    _typecheck(values(mv)[i], mt.args[2]) = True)
    /\ (/\ Contracted /\ call.args # <<>> /\ Callee.args # <<>>
        /\ Get(Callee.annotations, Callee.args[1]) = DictT) =>
          IF call.args[1].kind = "dict"
          THEN ~(call.out.kind = "raise" /\ call.checked = <<Callee.args[1]>>)
          ELSE call.out = ArgumentTypeError(Callee.name, Callee.args[1],
                                            _getTypeName(DictT))

\* Python's a or b over matcher results: b is evaluated only when a is false
Or(a, b) == IF a = False THEN b ELSE a

\* C10: matching a value against Union[A, B] gives what (the value matches
\* A) or (the value matches B) gives, A tried first and B only when A fails.
C10_UnionIsOr ==
    \A A \in BaseTypes, B \in BaseTypes :
        (Matched /\ mt = UnionOf(<<A, B>>)) =>
            mres = Or(_typecheck(mv, A), _typecheck(mv, B))

\* C11: matching against a List type is false for a value that is no list,
\* true for every list when the type has no element type, and otherwise true
\* exactly when every item matches the element type T as declared; so the
\* empty list matches List[T] for every T.
C11_ListMatching ==
    /\ (Matched /\ mt.tag = "List" /\ mv.kind # "list") => mres = False
    /\ (Matched /\ mt = ListT /\ mv.kind = "list") => mres = True
    /\ \A T \in BaseTypes :
          (Matched /\ mt = ListOf(T) /\ mv.kind = "list") =>
              (mres = True <=>
                  \A i \in 1..Len(mv.items) :
                      _typecheck(mv.items[i], T) = True)

\* C12: matching against a Tuple type is false for a value that is no tuple,
\* true for every tuple when the type has no element types, false when the
\* tuple's length differs from the number of element types, and otherwise
\* true exactly when the item at every position matches the element type
\* declared for that position.
C12_TupleMatching ==
    /\ (Matched /\ mt.tag = "Tuple" /\ mv.kind # "tuple") => mres = False
    /\ (Matched /\ mt = TupleT /\ mv.kind = "tuple") => mres = True
    /\ \A Es \in TupleElements :
          (Matched /\ mt = TupleOf(Es) /\ mv.kind = "tuple") =>
              IF Len(mv.items) # Len(Es) THEN mres = False
              ELSE (mres = True <=>
                       \A i \in 1..Len(Es) :
                           _typecheck(mv.items[i], Es[i]) = True)

(***************************************************************************)
(* Totality of the matcher (checked under SpecMatch).                      *)
(***************************************************************************)
\* the declared type is the no-return marker or has it as a parameter
NamesNoReturn(t) ==
    t = NoReturnT \/ \E i \in 1..Len(t.args) : t.args[i] = NoReturnT

\* C25: matching is total: for every value and every declared type other
\* than the no-return marker the matcher answers true or false, and no
\* exception escapes it, whatever the declared expression looks like.
C25_MatchingIsTotal ==
    (Matched /\ ~NamesNoReturn(mt)) => mres \in {True, False}

(***************************************************************************)
(* A contract built by from_callable on its own: func and the declared     *)
(* signature type_ are kept in mv and mt, the wrapper in nested, and the   *)
(* caller holds it as received.                                            *)
(***************************************************************************)
\* the declared types from_callable is handed
Signatures ==
    {CallableOf(<<>>, IntC), CallableOf(<<IntC>>, IntC),
     CallableOf(<<IntC, StrC>>, IntC), CallableOf(<<IntC>>, StrC),
     MyFuncReturn}

\* g = _TypedWrapper.from_callable(func, type_), where it builds a wrapper
FromCallable ==
    /\ nested = NoWrapper
    /\ \E f \in Targets, type_ \in Signatures :
         /\ from_callable(FuncV(f.name), type_).exc = ""
         /\ nested' = from_callable(FuncV(f.name), type_).wrapper
         /\ received' = WrapperV(f.name)
         /\ mv' = FuncV(f.name)
         /\ mt' = type_
    /\ UNCHANGED <<mres, w, call, klass, deco, via>>
    /\ UNCHANGED libVars

NestedNext == FromCallable \/ CallReceived

SpecNested == Init /\ [][NestedNext]_vars

\* the parameter types P1..Pn and the result type R of the signature in mt
DeclaredParams == SubSeq(_getArgs(mt), 1, Len(_getArgs(mt)) - 1)
DeclaredResult == _getArgs(mt)[Len(_getArgs(mt))]

\* the contract binds the i-th formal name to Pi up to n and to Any beyond,
\* and its return descriptor is R
BindsSignature ==
    /\ \A i \in 1..Len(nested.args) :
         /\ Has(nested.annotations, nested.args[i])
         /\ Get(nested.annotations, nested.args[i]) =
               IF i <= Len(DeclaredParams) THEN DeclaredParams[i] ELSE AnyT
    /\ nested.return_type = DeclaredResult

\* the invocation in call handed g more positional arguments than the
\* signature declares, no more than g's target has formals, the first n
\* of them matching P1..Pn
SurplusCall ==
    /\ call.on = "received"
    /\ Len(call.args) > Len(DeclaredParams)
    /\ Len(call.args) <= Len(nested.args)
    /\ \A i \in 1..Len(DeclaredParams) :
         _typecheck(call.args[i], DeclaredParams[i]) = True

\* C26: the contract built for a callable returned under
\* Callable[[P1..Pn], R] binds the i-th formal name to Pi for i <= n, every
\* formal beyond the n-th to Any, and has R as return descriptor; called
\* with more positional arguments than n it checks the first n and hands
\* all of them to the target without failing in the contract layer.
C26_SurplusArgumentsAccepted ==
    (received.kind = "_TypedWrapper" /\ mt.tag = "Callable") =>
        /\ BindsSignature
        /\ SurplusCall => call.called

(***************************************************************************)
(* Invocations of one contracted callable from several threads.  An        *)
(* invocation reads the wrapper in three steps: the argument loop of      *)
(* typedfunc, the call of the target, and the tail of __call__.  Between   *)
(* two steps of one thread any step of another may run.                    *)
(***************************************************************************)
MaxThreads == 2
Threads == 1..MaxThreads

ConcArgs == TuplesUpTo({IntV("2"), StrV("3")}, MaxArgs)
\* what the target does with the arguments of one invocation; it keeps no
\* state of its own, so this does not depend on the other invocations
ConcBehaviours == {Returned(IntV("5")), Returned(StrV("s")),
                   Raised("ValueError", "target")}

\* One invocation in flight:
\*   pc          "idle", "check", "target", "return" or "done"
\*   contract    the wrapper as it was when the invocation began
\*   overlapped  whether it took a step while another was under way
\*   ret, out    what the target returned; how the invocation ended
Thread(pc, args, kwargs, beh, contract, overlapped, ret, out) ==
    [pc |-> pc, args |-> args, kwargs |-> kwargs, beh |-> beh,
     contract |-> contract, overlapped |-> overlapped, ret |-> ret,
     out |-> out]
IdleThread == Thread("idle", <<>>, <<>>, NoOutcome, NoWrapper, FALSE,
                     NoValue, NoOutcome)

\* a contract that forgets its annotations once it has been used
ForgetAnnotations(wr) == [wr EXCEPT !.annotations = <<>>]

\* the wrapper after a step of __call__ or typedfunc: neither assigns to an
\* attribute of self, and from_callable fills a new object
SelfAfter(wr) == wr

UnderWay(t) == threads[t].pc \in {"check", "target", "return"}
Overlaps(t) == threads[t].overlapped \/ \E u \in Threads \ {t} : UnderWay(u)

\* thread t calls w(args)
Enter(t) ==
    /\ w # NoWrapper
    /\ threads[t].pc = "idle"
    /\ \E args \in ConcArgs, beh \in ConcBehaviours :
         threads' = [threads EXCEPT ![t] =
                        Thread("check", args, <<>>, beh, w, Overlaps(t),
                               NoValue, NoOutcome)]
    /\ w' = w
    /\ UNCHANGED <<mv, mt, mres, call, received, nested, klass, deco, via>>
    /\ UNCHANGED <<ifaceVars, assertion, fwVars, ovVars, evVars, prVars>>

\* the loop over argzip in typedfunc
CheckArguments(t) ==
    /\ threads[t].pc = "check"
    /\ LET th  == threads[t]
           inv == typedfunc(w, "w", th.args, th.kwargs, NoOutcome)
       IN  threads' = [threads EXCEPT ![t] =
              IF inv.called
              THEN [th EXCEPT !.pc = "target", !.overlapped = Overlaps(t)]
              ELSE [th EXCEPT !.pc = "done", !.overlapped = Overlaps(t),
                              !.out = inv.out]]
    /\ w' = SelfAfter(w)
    /\ UNCHANGED <<mv, mt, mres, call, received, nested, klass, deco, via>>
    /\ UNCHANGED <<ifaceVars, assertion, fwVars, ovVars, evVars, prVars>>

\* try: return self.func(args, kwargs)
RunTarget(t) ==
    /\ threads[t].pc = "target"
    /\ LET th   == threads[t]
           tout == Reraise(CallTarget(Target(w.func), th.args, th.kwargs,
                                      th.beh))
       IN  threads' = [threads EXCEPT ![t] =
              IF tout.kind = "return"
              THEN [th EXCEPT !.pc = "return", !.overlapped = Overlaps(t),
                              !.ret = tout.val]
              ELSE [th EXCEPT !.pc = "done", !.overlapped = Overlaps(t),
                              !.out = tout]]
    /\ w' = SelfAfter(w)
    /\ UNCHANGED <<mv, mt, mres, call, received, nested, klass, deco, via>>
    /\ UNCHANGED <<ifaceVars, assertion, fwVars, ovVars, evVars, prVars>>

\* the tail of __call__: the result is wrapped or checked
CheckReturn(t) ==
    /\ threads[t].pc = "return"
    /\ LET th == threads[t]
       IN  threads' = [threads EXCEPT ![t] =
              [th EXCEPT !.pc = "done", !.overlapped = Overlaps(t),
                         !.out = AfterReturn(w, th.ret)]]
    /\ w' = SelfAfter(w)
    /\ UNCHANGED <<mv, mt, mres, call, received, nested, klass, deco, via>>
    /\ UNCHANGED <<ifaceVars, assertion, fwVars, ovVars, evVars, prVars>>

TypedIdle == /\ mv = NoValue /\ mt = AnyT /\ mres = "pending"
             /\ Idle
             /\ NoClass

ConcInit ==
    /\ TypedIdle
    /\ threads = [t \in Threads |-> IdleThread]
    /\ NoInterface /\ NoAssertion /\ NoFramework /\ NoOverrides
    /\ NoEvents /\ NoPromises

ConcNext ==
    \/ Typed
    \/ \E t \in Threads : Enter(t)
    \/ \E t \in Threads : CheckArguments(t)
    \/ \E t \in Threads : RunTarget(t)
    \/ \E t \in Threads : CheckReturn(t)

SpecConc == ConcInit /\ [][ConcNext]_vars

\* how the invocation of thread t ends when it runs alone
Alone(t) ==
    TypedCall(threads[t].contract, "w", threads[t].args, threads[t].kwargs,
              threads[t].beh).out

\* C21: an invocation of a contracted callable, ended or not, failed or
\* not, leaves the contract (parameter names, descriptors, return
\* descriptor, auto-wrap flag) and the target reference as they were, so in
\* every interleaving each invocation ends as it does when it runs alone.
C21_InvocationsDoNotInterfere ==
    \A t \in DOMAIN threads :
        threads[t].pc # "idle" =>
            /\ w = threads[t].contract
            /\ threads[t].pc = "done" => threads[t].out = Alone(t)

\* two invocations that overlapped, one that failed in the contract and one
\* that returned
C21_Witness ==
    /\ threads # <<>>
    /\ \E t \in Threads, u \in Threads :
         /\ threads[t].pc = "done" /\ threads[t].overlapped
         /\ threads[t].out.kind = "raise" /\ threads[t].out.by = "arg"
         /\ threads[u].pc = "done" /\ threads[u].overlapped
         /\ threads[u].out.kind = "return"

(***************************************************************************)
(* rtest.py: assertRaises over functions that return or raise.             *)
(***************************************************************************)
\* what the function under test does when called
FuncBehaviours ==
    {Returned(v) : v \in {NoneV, IntV("1"), StrV("a")}}
    \cup {Raised(e, "func") : e \in ExcClasses}

AssertInit ==
    /\ TypedIdle
    /\ NoThreads /\ NoInterface /\ NoAssertion /\ NoFramework
    /\ NoOverrides /\ NoEvents /\ NoPromises

AssertRaises ==
    /\ NoAssertion
    /\ \E beh \in FuncBehaviours, exc \in ExcClasses, msg \in {"", "msg"} :
         assertion' = Assertion(beh, exc, msg, assertRaises(beh, exc, msg))
    /\ UNCHANGED <<typedVars, threads, ifaceVars, fwVars, ovVars, evVars,
                   prVars>>

AssertNext == AssertRaises

SpecAssert == AssertInit /\ [][AssertNext]_vars

\* func() raised an exception that is an instance of the expected class
RaisedExpected ==
    /\ assertion.func.kind = "raise"
    /\ issubclass(assertion.func.exc, assertion.exc)

\* C23: assertRaises(func, exc) passes if and only if calling func raises
\* an exception of type exc; when func raises an exception of another type
\* or returns without raising, the assertion fails with RAssertionError.
C23_AssertRaises ==
    (/\ assertion.exc # ""
     /\ assertion.func.kind = "raise" =>
            issubclass(assertion.func.exc, "Exception")) =>
        IF RaisedExpected THEN assertion.out = Returned(NoneV)
        ELSE /\ assertion.out.kind = "raise"
             /\ assertion.out.exc = "RAssertionError"

(***************************************************************************)
(* interface.py: an interface is declared, then classes are declared with  *)
(* it as their first base.                                                 *)
(***************************************************************************)
MaxBody == 3

\* the interfaces drawn: annotations and body
\*   class IA(Interface): x: int; def a(self): ...; def b(self): ...
\*   class IB(Interface): x: int; y: str; def a(self): ...;
\*                        def c(self): return 1
InterfaceBodies ==
    { [annotations |-> <<KV("x", "int")>>,
       attrs |-> <<Method("a", "ellipsis"), Method("b", "ellipsis")>>],
      [annotations |-> <<KV("x", "int"), KV("y", "str")>>,
       attrs |-> <<Method("a", "ellipsis"), Method("c", "return")>>] }

\* what a body under them may contain
BodyEntries ==
    {Method(n, c) : n \in {"a", "b"}, c \in {"ellipsis", "pass", "return"}}
    \cup {Attr("x", v) : v \in {IntV("1"), StrV("s"), BoolV("True")}}
    \cup {Attr("y", StrV("s")), Attr("a", IntV("1"))}

\* a class body binds each name once
ClassBodies ==
    {b \in TuplesUpTo(BodyEntries, MaxBody) :
        \A i, j \in 1..Len(b) : b[i].name = b[j].name => i = j}

InterfaceInit ==
    /\ TypedIdle
    /\ NoThreads /\ NoInterface /\ NoAssertion /\ NoFramework
    /\ NoOverrides /\ NoEvents /\ NoPromises

\* class I(Interface): ...
DeclareInterface ==
    /\ iface = NoInterfaceObj
    /\ \E b \in InterfaceBodies :
         iface' = DefineInterfaceObj(b.annotations, b.attrs)
    /\ UNCHANGED <<impl, typedVars, threads, assertion, fwVars, ovVars,
                   evVars, prVars>>

\* class C(I): ...
DeclareImplementation ==
    /\ iface # NoInterfaceObj
    /\ impl = NoClassStatement
    /\ \E b \in ClassBodies :
         impl' = ClassStatement(b, DefineImplementation(iface, b))
    /\ UNCHANGED <<iface, typedVars, threads, assertion, fwVars, ovVars,
                   evVars, prVars>>

InterfaceNext == DeclareInterface \/ DeclareImplementation

SpecInterface == InterfaceInit /\ [][InterfaceNext]_vars

\* the entry of the body in impl that binds name n
Bound(n) == {i \in 1..Len(impl.attrs) : impl.attrs[i].name = n}
Entry(n) == impl.attrs[CHOOSE i \in Bound(n) : TRUE]

DeclaredMethods ==
    {iface._Interface_methods[i] : i \in 1..Len(iface._Interface_methods)}

\* the body is written with defs for the declared methods, each either
\* "..." or a body that computes something
PlainBody ==
    \A n \in DeclaredMethods :
        Bound(n) # {} => Entry(n).kind = "function" /\ Entry(n).code # "pass"

\* every declared method has a body other than "..."
AllImplemented ==
    \A n \in DeclaredMethods : Bound(n) # {} /\ Entry(n).code # "ellipsis"

\* every annotated attribute the body sets has a value of its type
AttrsTyped ==
    \A i \in 1..Len(impl.attrs) :
        (/\ Has(iface._Interface_attrs, impl.attrs[i].name)
         /\ impl.attrs[i].name \notin DeclaredMethods) =>
            InstanceOf(impl.attrs[i].val,
                       Get(iface._Interface_attrs, impl.attrs[i].name))

\* C22: a class whose first base is an interface is made whenever its body
\* gives every declared ellipsis method a real body, in whatever order the
\* methods are written, and every annotated attribute it sets a value of
\* the annotated type; the class statement fails with ImplementationError
\* exactly when a declared method is absent or still an ellipsis body, or
\* such an attribute has a value of the wrong type.
C22_ImplementationAccepted ==
    (impl.out.exc # "none" /\ PlainBody) =>
        IF AllImplemented /\ AttrsTyped THEN impl.out.exc = ""
        ELSE impl.out.exc = "ImplementationError"

(***************************************************************************)
(* override.py: overrides are declared one after another and the name is   *)
(* called.                                                                 *)
(***************************************************************************)
MaxOverrides == 2
MaxAddress == 3

\* the type objects lie at different addresses
Addresses ==
    {a \in [TypeNames -> 1..MaxAddress] :
        \A s, t \in TypeNames : a[s] = a[t] => s = t}

ParamLists == TuplesUpTo({"int", "str"}, MaxArgs) \ {<<>>}
ArgTypeLists == TuplesUpTo(TypeNames, MaxArgs)

OverrideInit ==
    /\ TypedIdle
    /\ NoThreads /\ NoInterface /\ NoAssertion /\ NoFramework
    /\ NoEvents /\ NoPromises
    /\ id \in Addresses
    /\ _overrides = <<>> /\ declared = <<>> /\ ovcall = NoOverrideCall

\* @override def f(...): getWrapper adds the override; ovcall keeps a call
\* only as long as the overrides it was made among are the declared ones
Override ==
    /\ Len(declared) < MaxOverrides
    /\ \E params \in ParamLists, ret \in {"", "int"} :
         LET func == Func(Len(declared) + 1, params, ret)
         IN  /\ _overrides' = _addOverride(_overrides, func)
             /\ declared' = Append(declared, func)
    /\ ovcall' = NoOverrideCall
    /\ UNCHANGED <<id, typedVars, threads, ifaceVars, assertion,
                   fwVars, evVars, prVars>>

\* f(args): the wrapper calls _callOverride
CallOverride ==
    /\ declared # <<>>
    /\ \E types \in ArgTypeLists : ovcall' = _callOverride(_overrides, types)
    /\ UNCHANGED <<id, _overrides, declared, typedVars, threads, ifaceVars,
                   assertion, fwVars, evVars, prVars>>

OverrideNext == Override \/ CallOverride

SpecOverride == OverrideInit /\ [][OverrideNext]_vars

\* the overrides declared for exactly these parameter types
DeclaredFor(types) == {i \in 1..Len(declared) : declared[i].params = types}
Latest(S) == CHOOSE i \in S : \A j \in S : j <= i

\* the override held in the table is this one
Kept(func) == \E i \in 1..Len(_overrides) : _overrides[i].v = func

\* C27: a call of an @override function goes to the override whose declared
\* parameter types are exactly the types of the positional arguments, in
\* order; overrides declared for different parameter type lists are kept
\* apart and never replace each other; a call whose argument types have no
\* override raises TypeError.
C27_DispatchByArgumentTypes ==
    /\ \A i \in 1..Len(declared) :
         i = Latest(DeclaredFor(declared[i].params)) => Kept(declared[i])
    /\ ovcall.out # "" =>
         IF DeclaredFor(ovcall.args) = {}
         THEN ovcall.out = "TypeError" /\ ovcall.to = NoFunc
         ELSE /\ ovcall.out = "return"
              /\ ovcall.to = declared[Latest(DeclaredFor(ovcall.args))]

(***************************************************************************)
(* framework.py: functions are registered for events, removed, and the     *)
(* events are triggered.                                                   *)
(***************************************************************************)
MaxCalls == 3

EventArgs == {EvStr("a"), EvStr("ba"), EvStr("MODULE_LOAD"),
              EvInt(2), EvInt(3), EvInt(4)}
Functions == {"f", "g"}

FrameworkInit ==
    /\ TypedIdle
    /\ NoThreads /\ NoInterface /\ NoAssertion /\ NoFramework
    /\ NoOverrides /\ NoEvents /\ NoPromises

\* on(event, function)
On ==
    /\ Len(history) < MaxCalls
    /\ \E event \in EventArgs, function \in Functions :
         LET c == _getEventCode(_eventCache, event)
         IN  /\ _eventCache' = c.cache
             /\ _registry' = on(_registry, c.code, function)
             /\ history' = Append(history, ApiCall("on", c.code, function))
    /\ UNCHANGED <<marked, fwdo, typedVars, threads, ifaceVars, assertion,
                   ovVars, evVars, prVars>>

\* onOnce(event, function): the function object is marked, then on()
OnOnce ==
    /\ Len(history) < MaxCalls
    /\ \E event \in EventArgs, function \in Functions :
         LET c == _getEventCode(_eventCache, event)
         IN  /\ marked' = marked \cup {function}
             /\ _eventCache' = c.cache
             /\ _registry' = on(_registry, c.code, function)
             /\ history' = Append(history,
                                  ApiCall("onOnce", c.code, function))
    /\ UNCHANGED <<fwdo, typedVars, threads, ifaceVars, assertion, ovVars,
                   evVars, prVars>>

\* remove(event, function)
Remove ==
    /\ Len(history) < MaxCalls
    /\ \E event \in EventArgs, function \in Functions :
         LET c == _getEventCode(_eventCache, event)
         IN  /\ _eventCache' = c.cache
             /\ _registry' = remove(_registry, c.code, function)
             /\ history' = Append(history,
                                  ApiCall("remove", c.code, function))
    /\ UNCHANGED <<marked, fwdo, typedVars, threads, ifaceVars, assertion,
                   ovVars, evVars, prVars>>

\* do(event)
Do ==
    /\ Len(history) < MaxCalls
    /\ \E event \in EventArgs :
         LET c == _getEventCode(_eventCache, event)
             d == do(_registry, _eventCache, marked, event)
         IN  /\ _eventCache' = d.cache
             /\ _registry' = d.registry
             /\ history' = Append(history, ApiCall("do", c.code, ""))
             /\ fwdo' = Done(Len(history) + 1, event, c.code, d.called,
                             d.exc)
    /\ UNCHANGED <<marked, typedVars, threads, ifaceVars, assertion, ovVars,
                   evVars, prVars>>

FrameworkNext == On \/ OnOnce \/ Remove \/ Do

SpecFramework == FrameworkInit /\ [][FrameworkNext]_vars

\* a registration: the code, the function, whether it was made by onOnce
Registration(code, f, once) == [code |-> code, f |-> f, once |-> once]

\* the first registration of f under code leaves
Unregister(rs, code, f) ==
    IF \E i \in 1..Len(rs) : rs[i].code = code /\ rs[i].f = f
    THEN LET i == CHOOSE i \in 1..Len(rs) :
                     /\ rs[i].code = code /\ rs[i].f = f
                     /\ \A j \in 1..(i - 1) :
                          ~(rs[j].code = code /\ rs[j].f = f)
         IN  SubSeq(rs, 1, i - 1) \o SubSeq(rs, i + 1, Len(rs))
    ELSE rs

\* the registrations that should be in force after the calls in h: on and
\* onOnce add one, remove takes one away, and a do() takes away the onOnce
\* registrations of the codes whose functions it calls
RECURSIVE InForce(_)
InForce(h) ==
    IF h = <<>> THEN <<>>
    ELSE LET prev == InForce(SubSeq(h, 1, Len(h) - 1))
             e    == h[Len(h)]
         IN  CASE e.op = "on" ->
                    Append(prev, Registration(e.code, e.f, FALSE))
               [] e.op = "onOnce" ->
                    Append(prev, Registration(e.code, e.f, TRUE))
               [] e.op = "remove" -> Unregister(prev, e.code, e.f)
               [] e.op = "do" ->
                    SelectSeq(prev, LAMBDA r :
                        ~(r.once /\ r.code \in {e.code, Events_EVENT.n}))

\* the functions registered under code among rs, in order
Under(rs, code) ==
    LET own == SelectSeq(rs, LAMBDA r : r.code = code)
    IN  [i \in 1..Len(own) |-> own[i].f]

\* the functions the last do() called under code, in order
CalledUnder(code) ==
    LET own == SelectSeq(fwdo.called, LAMBDA c : c.code = code)
    IN  [i \in 1..Len(own) |-> own[i].f]

\* C24: after on(event, f), f is called by every later do(event), whether
\* the event is named by a string or by its code, and stays registered
\* until remove(event, f); only a registration made by onOnce is removed
\* after its function was called, and only from the event it was made for.
C24_RegisteredUntilRemoved ==
    /\ \A i \in 1..Len(history) :
         Listeners(_registry, history[i].code) =
             Under(InForce(history), history[i].code)
    /\ fwdo.at > 0 =>
         CalledUnder(fwdo.code) =
             Under(InForce(SubSeq(history, 1, fwdo.at - 1)), fwdo.code)

(***************************************************************************)
(* events.py: bindings are made with EventManager.on(event).do(callback)   *)
(* and .onError(callback), and events are triggered with EventManager.do.  *)
(***************************************************************************)
MaxBindings == 3

\* the bindings drawn: for the events "x" and "y", for EXCEPTION, whose
\* handlers defer or not, and for CALLBACK_ERROR
BindingChoices ==
    {<<EventCode("x"), c, e>> : c \in {"ok", "KeyError", "ValueError"},
                                e \in {"", "ok", "KeyError"}}
    \cup {<<EventCode("y"), "ok", "">>}
    \cup {<<EXCEPTION, c, "">> : c \in {"defer", "ok"}}
    \cup {<<CALLBACK_ERROR, c, "">> : c \in {"ok", "KeyError"}}

\* the bindings made so far, the pending one included
Made == Len(Flatten_(EventManager._registry))
        + (IF EventManager._current_bind = NoBinding THEN 0 ELSE 1)

EventsInit ==
    /\ TypedIdle
    /\ NoThreads /\ NoInterface /\ NoAssertion /\ NoFramework
    /\ NoOverrides /\ NoEvents /\ NoPromises

\* EventManager.on(event).do(callback), with .onError(errCallback) when
\* errCallback is given: on() finalizes the binding made before and keeps
\* the new one as the current binding
Bind ==
    /\ Made < MaxBindings
    /\ \E c \in BindingChoices :
         EventManager' =
            [_finalize_bind(EventManager).manager EXCEPT
                !._current_bind = EventBinding(Made + 1, c[1], c[2], c[3])]
    /\ UNCHANGED <<evdo, typedVars, threads, ifaceVars, assertion, fwVars,
                   ovVars, prVars>>

\* EventManager.do(event)
EventDo ==
    /\ \E name \in {"x", "y"} :
         LET d == EventManager_do(EventManager, EventCode(name))
         IN  /\ EventManager' = d.manager
             /\ evdo' = EventDone(EventCode(name),
                                  Listeners(d.manager._registry,
                                            EventCode(name)),
                                  d.log, d.exc)
    /\ UNCHANGED <<typedVars, threads, ifaceVars, assertion, fwVars, ovVars,
                   prVars>>

EventsNext == Bind \/ EventDo

SpecEvents == EventsInit /\ [][EventsNext]_vars

\* the bindings do() called as what ("callback" or "onError"), in order
RanAs(what) ==
    LET own == SelectSeq(evdo.log, LAMBDA r : r.what = what /\ r.depth = 0)
    IN  [i \in 1..Len(own) |-> own[i].n]

\* the bindings of the event, and those whose callback raised and that
\* have an onError callback, in the order of registration
Registered == [i \in 1..Len(evdo.bindings) |-> evdo.bindings[i].n]
WithOnError ==
    LET own == SelectSeq(evdo.bindings,
                         LAMBDA b : Raises(b.callback) /\ b.errCallback # "")
    IN  [i \in 1..Len(own) |-> own[i].n]

MaxChain == 3
MaxResolve == 2

\* what the functions of the promises do
PromiseFunctions ==
    {Returned(NoneV), Returned(IntV("1")), Raised("KeyError", "function")}

PromiseInit ==
    /\ TypedIdle
    /\ NoThreads /\ NoInterface /\ NoAssertion /\ NoFramework
    /\ NoOverrides /\ NoEvents /\ NoPromises

\* Promise(function)
NewPromise ==
    /\ promises = <<>>
    /\ \E f \in PromiseFunctions : promises' = <<Promise(f)>>
    /\ UNCHANGED <<resolution, typedVars, threads, ifaceVars, assertion,
                   fwVars, ovVars, evVars>>

\* p.then(func) on the last promise of the chain
Then ==
    /\ promises # <<>> /\ Len(promises) < MaxChain
    /\ resolution = NoResolution
    /\ \E f \in PromiseFunctions : promises' = Append(promises, Promise(f))
    /\ UNCHANGED <<resolution, typedVars, threads, ifaceVars, assertion,
                   fwVars, ovVars, evVars>>

\* p.error(func) on a promise of the chain
Error ==
    /\ resolution = NoResolution
    /\ \E i \in 1..Len(promises) :
         /\ promises[i]._error = ""
         /\ promises' = [promises EXCEPT ![i]._error = "onError"]
    /\ UNCHANGED <<resolution, typedVars, threads, ifaceVars, assertion,
                   fwVars, ovVars, evVars>>

\* the resolvings so far
Resolvings == IF resolution = NoResolution THEN 0 ELSE resolution.nth

\* with p as result: ..., for any promise p of the chain
With ==
    /\ promises # <<>> /\ Resolvings < MaxResolve
    /\ LET r == __enter__(promises)
       IN  /\ promises' = r.ps
           /\ resolution' = [Resolution("with", promises, r) EXCEPT
                                !.nth = Resolvings + 1]
    /\ UNCHANGED <<typedVars, threads, ifaceVars, assertion, fwVars, ovVars,
                   evVars>>

\* root.get_result()
GetResult ==
    /\ promises # <<>> /\ Resolvings < MaxResolve
    /\ LET r == get_result(Resolved(promises, <<>>, <<>>, ""))
       IN  /\ promises' = r.ps
           /\ resolution' = [Resolution("get_result", promises, r) EXCEPT
                                !.nth = Resolvings + 1]
    /\ UNCHANGED <<typedVars, threads, ifaceVars, assertion, fwVars, ovVars,
                   evVars>>

PromiseNext == NewPromise \/ Then \/ Error \/ With \/ GetResult

SpecPromise == PromiseInit /\ [][PromiseNext]_vars


\* the chain was new when the last resolving began
FreshChain ==
    /\ resolution # NoResolution
    /\ \A i \in 1..Len(resolution.before) :
         /\ resolution.before[i]._state = PENDING
         /\ resolution.before[i]._result = NoneV

\* the functions ran in the order of the chain
RanInOrder ==
    \A k \in 1..Len(resolution.log) - 1 :
        resolution.log[k].i <= resolution.log[k + 1].i

\* a chained function ran after its parent's function had returned, and
\* was given what it returned
RanOnParentResult ==
    \A k \in 1..Len(resolution.log) :
        resolution.log[k].i > 1 =>
            \E j \in 1..k - 1 :
                /\ resolution.log[j].i = resolution.log[k].i - 1
                /\ resolution.log[j].out.kind = "return"
                /\ promises[resolution.log[j].i]._state = FINISHED
                /\ resolution.log[k].args = <<resolution.log[j].out.val>>

\* an error handler is registered on a promise of the chain
HandlerRegistered ==
    \E j \in 1..Len(resolution.before) : resolution.before[j]._error # ""

\* a raising function ends the resolving: its promise is cancelled and the
\* exception goes to a handler of the chain, or to the caller if there is
\* none
RaiseEndsChain ==
    \A k \in 1..Len(resolution.log) :
        resolution.log[k].out.kind = "raise" =>
            /\ promises[resolution.log[k].i]._state = CANCELLED
            /\ k = Len(resolution.log)
            /\ IF HandlerRegistered
               THEN /\ Len(resolution.handled) = 1
                    /\ resolution.handled[1].exc = resolution.log[k].out.exc
                    /\ resolution.exc = ""
               ELSE /\ resolution.handled = <<>>
                    /\ resolution.exc = resolution.log[k].out.exc

\* C29: resolving a new chain from its root runs the functions in the order
\* they were chained, each after its parent has finished and with the
\* parent's result as its argument; once a function raises, its promise is
\* CANCELLED, no later function is run, and the exception is passed to an
\* error handler of the chain if one is registered and otherwise raised to
\* the caller.
C29_ChainRunsInOrder ==
    FreshChain => RanInOrder /\ RanOnParentResult /\ RaiseEndsChain

\* no function was run twice in the last resolving
RanAtMostOnce ==
    \A k, l \in 1..Len(resolution.log) :
        resolution.log[k].i = resolution.log[l].i => k = l

\* no promise goes back to PENDING in a step
StaysLeft ==
    \A i \in 1..Len(promises) :
        (promises[i]._state # PENDING /\ i <= Len(promises'))
            => promises'[i]._state # PENDING

\* C30: a resolving, by "with" or by get_result on the root, runs each
\* function of the chain at most once, also when the promise has no
\* successor, and a promise that has left PENDING never returns to it.
C30_EachFunctionOnce == [](RanAtMostOnce) /\ [][StaysLeft]_vars

====
